---- MODULE Spec2Model ----
(***************************************************************************)
(* WiCA cellular-automaton simulator: the sparse grid (CellSpace), the     *)
(* rule trie (Trie), the rule engine (RuleEngine) and the simulation tick  *)
(* of the application (Application::updateSimulation).                     *)
(*                                                                         *)
(* A Point is the tuple <<x, y>>.  A grid value ("cs") is the record of    *)
(* the CellSpace fields activeCells, minGridBounds, maxGridBounds and      *)
(* boundsInitialized; activeCells is a function whose DOMAIN is the set of *)
(* stored keys of the unordered_map.                                       *)
(***************************************************************************)
EXTENDS Integers, Sequences, FiniteSets, TLC

VARIABLES
    activeCells,        \* CellSpace::activeCells_
    minGridBounds,      \* CellSpace::minGridBounds_
    maxGridBounds,      \* CellSpace::maxGridBounds_
    boundsInitialized,  \* CellSpace::boundsInitialized_
    defaultState,       \* CellSpace::defaultState_
    neighborhood,       \* CellSpace::neighborhood_
    cellsToEvaluate,    \* CellSpace::cellsToEvaluate_ (the evaluation frontier)
    lastOp,             \* history: name of the last grid operation
    lastArg,            \* history: argument of the last grid operation
    ruleTrie,           \* RuleEngine::ruleTrie_ / a Trie instance
    inserted,           \* history: the insertRule calls made on ruleTrie
    initialized,        \* RuleEngine::initialized_
    currentRuleMode,    \* RuleEngine::currentRuleMode_
    neighborhoodDefinition, \* RuleEngine::neighborhoodDefinition_
    dllHandle,          \* RuleEngine::dllHandle_
    dllRuleFunction,    \* RuleEngine::dllRuleFunction_
    openHandles,        \* history: libraries opened by dlopen and not yet closed
    pc,                 \* position inside Application::updateSimulation
    changes,            \* the local 'changes' of Application::updateSimulation
    simulationPaused,   \* Application::simulationPaused_
    dataToCompress,     \* the argument of HuffmanCoding::compress
    compressedData,     \* the result of compress / the argument of decompress
    decompressedOutput, \* the result of HuffmanCoding::decompress
    heapOrder,          \* which of two equal-frequency nodes std::priority_queue pops first
    serializedData,     \* the result of serializeCellSpace / the argument of deserializeCellSpace
    savedCellSpace,     \* history: the grid as it was when it was serialized
    snapshotResult,     \* the result of the last deserializeCellSpace / loadState
    isRunning,          \* Application::isRunning_
    timePerUpdate,      \* Application::timePerUpdate_ (ms)
    simulationLag,      \* Application::simulationLag_ (ms)
    stepsExecuted,      \* history: simulation steps executed in this iteration of run
    lagAtUpdate,        \* history: simulationLag_ when processInput returned
    timers,             \* the Timer instances created so far
    s_accumulatedTimes, \* Timer::s_accumulatedTimes_
    clockNow            \* std::chrono::high_resolution_clock::now()

gridVars == <<activeCells, minGridBounds, maxGridBounds, boundsInitialized>>
histVars == <<lastOp, lastArg>>
trieVars == <<ruleTrie, inserted>>
engineVars == <<initialized, currentRuleMode, neighborhoodDefinition,
                dllHandle, dllRuleFunction, openHandles>>
appVars == <<pc, changes, simulationPaused>>
snapVars == <<serializedData, savedCellSpace, snapshotResult>>
loopVars == <<isRunning, timePerUpdate, simulationLag, stepsExecuted, lagAtUpdate>>
timerVars == <<timers, s_accumulatedTimes, clockNow>>
fileVars == <<dataToCompress, compressedData, decompressedOutput, heapOrder,
              serializedData, savedCellSpace, snapshotResult,
              isRunning, timePerUpdate, simulationLag, stepsExecuted, lagAtUpdate,
              timers, s_accumulatedTimes, clockNow>>
vars == <<activeCells, minGridBounds, maxGridBounds, boundsInitialized,
          defaultState, neighborhood, cellsToEvaluate, lastOp, lastArg,
          ruleTrie, inserted, initialized, currentRuleMode,
          neighborhoodDefinition, dllHandle, dllRuleFunction, openHandles,
          pc, changes, simulationPaused,
          dataToCompress, compressedData, decompressedOutput, heapOrder,
          serializedData, savedCellSpace, snapshotResult,
          isRunning, timePerUpdate, simulationLag, stepsExecuted, lagAtUpdate,
          timers, s_accumulatedTimes, clockNow>>

----------------------------------------------------------------------------
(* Bounds of the model and program constants *)

MaxX == 2
MaxY == 1
MaxState == 2
MaxActive == 3
MaxBatch == 2

INT_MAX == 2147483647
INT_MIN == -INT_MAX - 1
NO_RULE_FOUND == -1
NULL == "null"

Points == (0..MaxX) \X (0..MaxY)
States == 0..MaxState
DefaultStates == {0, 1}


\* Point::operator+
PointAdd(p, q) == <<p[1] + q[1], p[2] + q[2]>>

\* Point::operator<  (lexicographic, x then y)
PointLess(p, q) ==
    IF p[1] < q[1] THEN TRUE
    ELSE IF p[1] > q[1] THEN FALSE
    ELSE p[2] < q[2]

EmptyMap == [q \in {} |-> 0]

MapErase(m, c) == [q \in DOMAIN m \ {c} |-> m[q]]
MapPut(m, c, s) == [q \in DOMAIN m \cup {c} |-> IF q = c THEN s ELSE m[q]]

----------------------------------------------------------------------------
(* CellSpace: src/src/ca/cell_space.cpp *)

InvalidMin == <<INT_MAX, INT_MAX>>
InvalidMax == <<INT_MIN, INT_MIN>>

\* CellSpace::CellSpace
NewCellSpace ==
    [activeCells |-> EmptyMap, minGridBounds |-> InvalidMin,
     maxGridBounds |-> InvalidMax, boundsInitialized |-> FALSE]

\* CellSpace::updateBounds
updateBounds(cs, c) ==
    IF ~cs.boundsInitialized
    THEN [cs EXCEPT !.minGridBounds = c, !.maxGridBounds = c,
                    !.boundsInitialized = TRUE]
    ELSE [cs EXCEPT
            !.minGridBounds = <<IF c[1] < cs.minGridBounds[1] THEN c[1] ELSE cs.minGridBounds[1],
                                IF c[2] < cs.minGridBounds[2] THEN c[2] ELSE cs.minGridBounds[2]>>,
            !.maxGridBounds = <<IF c[1] > cs.maxGridBounds[1] THEN c[1] ELSE cs.maxGridBounds[1],
                                IF c[2] > cs.maxGridBounds[2] THEN c[2] ELSE cs.maxGridBounds[2]>>]

\* the for loop of CellSpace::recalculateBounds over the stored keys
RECURSIVE recalcLoop(_, _)
recalcLoop(cs, keys) ==
    IF keys = {} THEN cs
    ELSE LET k == CHOOSE k \in keys : TRUE
         IN recalcLoop(updateBounds(cs, k), keys \ {k})

\* CellSpace::recalculateBounds
recalculateBounds(cs) ==
    LET reset == [cs EXCEPT !.boundsInitialized = FALSE,
                            !.minGridBounds = InvalidMin,
                            !.maxGridBounds = InvalidMax]
    IN IF DOMAIN cs.activeCells = {} THEN reset
       ELSE recalcLoop(reset, DOMAIN cs.activeCells)

\* a getCellState that reports every cell as being in the default state
getCellStateDefault(cells, d, c) == d

\* CellSpace::getCellState
getCellState(cells, d, c) ==
    IF c \in DOMAIN cells THEN cells[c] ELSE d

\* the boundary test of setCellState and of the removal branch of updateCells
OnBoundary(cs, c) ==
    \/ c[1] = cs.minGridBounds[1] \/ c[1] = cs.maxGridBounds[1]
    \/ c[2] = cs.minGridBounds[2] \/ c[2] = cs.maxGridBounds[2]

\* the boundary test of the insertion branch of updateCells
AtOrBeyondBoundary(cs, c) ==
    \/ c[1] <= cs.minGridBounds[1] \/ c[1] >= cs.maxGridBounds[1]
    \/ c[2] <= cs.minGridBounds[2] \/ c[2] >= cs.maxGridBounds[2]

InvalidateBounds(cs) ==
    [cs EXCEPT !.boundsInitialized = FALSE, !.minGridBounds = InvalidMin,
               !.maxGridBounds = InvalidMax]

\* a setCellState that stores whatever state it is given
setCellStateAlwaysStore(cs, d, c, state) ==
    updateBounds([cs EXCEPT !.activeCells = MapPut(cs.activeCells, c, state)], c)

\* a setCellState that never shrinks the bounds on removal
setCellStateNoShrink(cs, d, c, state) ==
    LET currentState == getCellState(cs.activeCells, d, c) IN
    IF state = d
    THEN IF currentState # d
         THEN LET erased == [cs EXCEPT !.activeCells = MapErase(cs.activeCells, c)]
              IN IF DOMAIN erased.activeCells = {} THEN InvalidateBounds(erased)
                 ELSE erased
         ELSE cs
    ELSE updateBounds([cs EXCEPT !.activeCells = MapPut(cs.activeCells, c, state)], c)

\* a setCellState that leaves the bounds flag set when the last cell goes
setCellStateKeepValid(cs, d, c, state) ==
    LET currentState == getCellState(cs.activeCells, d, c) IN
    IF state = d
    THEN IF currentState # d
         THEN LET erased == [cs EXCEPT !.activeCells = MapErase(cs.activeCells, c)]
              IN IF DOMAIN erased.activeCells # {} /\ erased.boundsInitialized
                    /\ OnBoundary(erased, c)
                 THEN recalculateBounds(erased)
                 ELSE erased
         ELSE cs
    ELSE updateBounds([cs EXCEPT !.activeCells = MapPut(cs.activeCells, c, state)], c)

\* CellSpace::setCellState
setCellState(cs, d, c, state) ==
    LET currentState == getCellState(cs.activeCells, d, c) IN
    IF state = d
    THEN IF currentState # d
         THEN LET erased == [cs EXCEPT !.activeCells = MapErase(cs.activeCells, c)]
              IN IF DOMAIN erased.activeCells = {} THEN InvalidateBounds(erased)
                 ELSE IF erased.boundsInitialized /\ OnBoundary(erased, c)
                      THEN recalculateBounds(erased)
                      ELSE erased
         ELSE cs
    ELSE updateBounds([cs EXCEPT !.activeCells = MapPut(cs.activeCells, c, state)], c)

\* one iteration of the for loop of CellSpace::updateCells; st is the pair
\* <<grid, boundaryPotentiallyAffected>>, upd the pair <<coords, newState>>
updateCellsBody(st, d, upd) ==
    LET cs == st[1]
        coords == upd[1]
        newState == upd[2]
        currentState == getCellState(cs.activeCells, d, coords)
    IN IF currentState = newState THEN st
       ELSE IF newState = d
            THEN IF coords \in DOMAIN cs.activeCells
                 THEN <<[cs EXCEPT !.activeCells = MapErase(cs.activeCells, coords)],
                        st[2] \/ (cs.boundsInitialized /\ OnBoundary(cs, coords))>>
                 ELSE st
            ELSE LET put == updateBounds(
                               [cs EXCEPT !.activeCells = MapPut(cs.activeCells, coords, newState)],
                               coords)
                 IN <<put, st[2] \/ (put.boundsInitialized /\ AtOrBeyondBoundary(put, coords))>>

RECURSIVE updateCellsLoop(_, _, _, _)
updateCellsLoop(st, d, upds, i) ==
    IF i > Len(upds) THEN st
    ELSE updateCellsLoop(updateCellsBody(st, d, upds[i]), d, upds, i + 1)

\* CellSpace::updateCells; upds lists the pairs of the map in iteration order
updateCells(cs, d, upds) ==
    IF Len(upds) = 0 THEN cs
    ELSE LET st == updateCellsLoop(<<cs, FALSE>>, d, upds, 1)
             after == st[1]
         IN IF DOMAIN after.activeCells = {} THEN InvalidateBounds(after)
            ELSE IF st[2] THEN recalculateBounds(after)
                 ELSE after

\* CellSpace::loadActiveCells
\* the variant that recomputes the bounds from the loaded keys
loadActiveCellsRecalculate(cells, minB, maxB) ==
    recalculateBounds([activeCells |-> cells, minGridBounds |-> minB,
                       maxGridBounds |-> maxB, boundsInitialized |-> FALSE])

loadActiveCells(cells, minB, maxB) ==
    IF DOMAIN cells = {}
    THEN [activeCells |-> cells, minGridBounds |-> InvalidMin,
          maxGridBounds |-> InvalidMax, boundsInitialized |-> FALSE]
    ELSE [activeCells |-> cells, minGridBounds |-> minB,
          maxGridBounds |-> maxB, boundsInitialized |-> TRUE]

\* CellSpace::clear
\* the variant that keeps the bounds of the emptied grid
clearKeepsBounds(cs) == [cs EXCEPT !.activeCells = EmptyMap]

clear(cs) ==
    [activeCells |-> EmptyMap, minGridBounds |-> InvalidMin,
     maxGridBounds |-> InvalidMax, boundsInitialized |-> FALSE]

\* the grid held in the variables
Grid ==
    [activeCells |-> activeCells, minGridBounds |-> minGridBounds,
     maxGridBounds |-> maxGridBounds, boundsInitialized |-> boundsInitialized]

SetGrid(cs) ==
    /\ activeCells' = cs.activeCells
    /\ minGridBounds' = cs.minGridBounds
    /\ maxGridBounds' = cs.maxGridBounds
    /\ boundsInitialized' = cs.boundsInitialized

----------------------------------------------------------------------------
(* Trie: src/src/utils/trie.cpp.  A trie is the function from the path of  *)
(* each allocated TrieNode (the symbols on the way from the root) to the   *)
(* node's fields; the root is the node of the empty path.                  *)

MaxLen == 2
MaxSym == 1

\* Trie::TrieNode::TrieNode
NewTrieNode == [isEndOfRule |-> FALSE, nextStateIfEndOfRule |-> NO_RULE_FOUND]

\* Trie::Trie
NewTrie == [path \in {<<>>} |-> NewTrieNode]

\* the for loop of Trie::insertRule: creates the missing child, then descends
RECURSIVE insertWalk(_, _, _, _)
insertWalk(trie, currentNode, rulePrefix, i) ==
    IF i > Len(rulePrefix) THEN <<trie, currentNode>>
    ELSE LET child == Append(currentNode, rulePrefix[i])
             grown == IF child \in DOMAIN trie THEN trie
                      ELSE [path \in DOMAIN trie \cup {child} |->
                              IF path = child THEN NewTrieNode ELSE trie[path]]
         IN insertWalk(grown, child, rulePrefix, i + 1)

\* the variant that leaves the result of a sequence already marked as a rule
insertRuleKeepsFirst(trie, rulePrefix, resultState) ==
    LET walked == insertWalk(trie, <<>>, rulePrefix, 1)
        grown == walked[1]
        currentNode == walked[2]
    IN IF grown[currentNode].isEndOfRule THEN grown
       ELSE [grown EXCEPT ![currentNode] =
                [isEndOfRule |-> TRUE, nextStateIfEndOfRule |-> resultState]]

\* Trie::insertRule
insertRule(trie, rulePrefix, resultState) ==
    LET walked == insertWalk(trie, <<>>, rulePrefix, 1)
        grown == walked[1]
        currentNode == walked[2]
    IN [grown EXCEPT ![currentNode] =
            [isEndOfRule |-> TRUE, nextStateIfEndOfRule |-> resultState]]

\* the for loop of Trie::findNextState; "none" when a child is missing
RECURSIVE findWalk(_, _, _, _)
findWalk(trie, currentNode, neighborStates, i) ==
    IF i > Len(neighborStates) THEN currentNode
    ELSE LET child == Append(currentNode, neighborStates[i])
         IN IF child \notin DOMAIN trie THEN "none"
            ELSE findWalk(trie, child, neighborStates, i + 1)

\* Trie::findNextState
findNextState(trie, neighborStates) ==
    LET currentNode == findWalk(trie, <<>>, neighborStates, 1) IN
    IF currentNode = "none" THEN NO_RULE_FOUND
    ELSE IF trie[currentNode].isEndOfRule
         THEN trie[currentNode].nextStateIfEndOfRule
         ELSE NO_RULE_FOUND

SeqsUpTo(syms, n) == UNION {[1..k -> syms] : k \in 0..n}

TrieSyms == 0..MaxSym
\* a result state is any int declared in "states"; -1 is one of them
TrieResults == {NO_RULE_FOUND} \cup TrieSyms
TrieKeys == SeqsUpTo(TrieSyms, MaxLen)
TrieProbes == SeqsUpTo(TrieSyms, MaxLen + 1)

IsStrictPrefix(s, t) == Len(s) < Len(t) /\ s = SubSeq(t, 1, Len(s))

----------------------------------------------------------------------------
(* RuleEngine: src/src/ca/rule_engine.cpp.  An engine value is the record  *)
(* of the RuleEngine fields.  A rule configuration (class Rule) is a       *)
(* record [loaded, ruleMode, neighborhood, rules, dllPath, functionName];  *)
(* the file system is the record [library, symbol] saying whether dlopen   *)
(* and dlsym succeed.  A loaded function pointer is the name of the rule   *)
(* function it points to.                                                  *)

Range(f) == {f[i] : i \in DOMAIN f}

\* RuleEngine::RuleEngine
NewRuleEngine ==
    [initialized |-> FALSE, currentRuleMode |-> "trie",
     neighborhoodDefinition |-> <<>>, ruleTrie |-> NewTrie,
     dllHandle |-> NULL, dllRuleFunction |-> NULL, openHandles |-> 0]

\* ErrorHandler::logError(message, isFatal) followed by "return returned":
\* a fatal error ends the process in exit(EXIT_FAILURE) before the return
logError(isFatal, eng, returned) ==
    IF isFatal THEN <<eng, "exit">> ELSE <<eng, returned>>

\* an unloadRuleLibrary that forgets the handle without closing the library
unloadRuleLibraryLeak(eng) ==
    IF eng.dllHandle # NULL
    THEN [eng EXCEPT !.dllHandle = NULL, !.dllRuleFunction = NULL]
    ELSE eng

\* RuleEngine::unloadRuleLibrary
unloadRuleLibrary(eng) ==
    IF eng.dllHandle # NULL
    THEN [eng EXCEPT !.dllHandle = NULL, !.dllRuleFunction = NULL,
                     !.openHandles = @ - 1]
    ELSE eng

\* RuleEngine::loadRuleLibrary (POSIX branch); the pair <<engine, outcome>>,
\* the outcome "true" or "false" as returned, or "exit"
loadRuleLibrary(eng, dllPathBaseFromConfig, functionName, fs) ==
    LET unloaded == unloadRuleLibrary(eng) IN
    IF dllPathBaseFromConfig = "" \/ functionName = ""
    THEN logError(TRUE, unloaded, "false")
    ELSE IF ~fs.library THEN logError(TRUE, unloaded, "false")
    ELSE LET opened == [unloaded EXCEPT !.dllHandle = dllPathBaseFromConfig,
                                        !.openHandles = @ + 1]
             logged == logError(TRUE, opened, "continue")
         IN IF ~fs.symbol
            THEN IF logged[2] = "exit" THEN logged
                 ELSE <<[opened EXCEPT !.dllHandle = NULL, !.openHandles = @ - 1], "false">>
            ELSE <<[opened EXCEPT !.dllRuleFunction = functionName], "true">>

\* the for loop over the configured rows in RuleEngine::initialize
RECURSIVE insertRows(_, _, _, _)
insertRows(trie, rules, n, i) ==
    IF i > Len(rules) THEN trie
    ELSE LET ruleVector == rules[i] IN
         IF Len(ruleVector) = 0 THEN insertRows(trie, rules, n, i + 1)
         ELSE IF Len(ruleVector) # n + 1 THEN insertRows(trie, rules, n, i + 1)
         ELSE insertRows(insertRule(trie, SubSeq(ruleVector, 1, Len(ruleVector) - 1),
                                    ruleVector[Len(ruleVector)]),
                         rules, n, i + 1)

\* an initialize that leaves initialized_ as it was until it succeeds
initializeKeepsFlag(eng, config, fs) ==
    LET start == unloadRuleLibrary(eng) IN
    IF ~config.loaded THEN logError(TRUE, start, "false")
    ELSE LET cached == [start EXCEPT !.currentRuleMode = config.ruleMode,
                                     !.neighborhoodDefinition = config.neighborhood]
         IN IF config.ruleMode = "dll"
            THEN LET loaded == loadRuleLibrary(cached, config.dllPath, config.functionName, fs)
                 IN IF loaded[2] = "exit" THEN loaded
                    ELSE IF loaded[2] = "false" THEN logError(TRUE, loaded[1], "false")
                    ELSE <<[loaded[1] EXCEPT !.ruleTrie = NewTrie, !.initialized = TRUE], "true">>
            ELSE IF config.ruleMode = "trie"
                 THEN IF /\ Len(config.neighborhood) = 0 /\ Len(config.rules) # 0
                         /\ logError(TRUE, cached, "continue")[2] = "exit"
                      THEN <<[cached EXCEPT !.ruleTrie = NewTrie], "exit">>
                      ELSE <<[cached EXCEPT
                                !.ruleTrie = insertRows(NewTrie, config.rules,
                                                        Len(config.neighborhood), 1),
                                !.initialized = TRUE], "true">>
                 ELSE logError(TRUE, cached, "false")

\* RuleEngine::initialize; the pair <<engine, outcome>>, the outcome "true" or
\* "false" as returned, or "exit" when a fatal error ended the process
initialize(eng, config, fs) ==
    LET start == unloadRuleLibrary([eng EXCEPT !.initialized = FALSE]) IN
    IF ~config.loaded THEN logError(TRUE, start, "false")
    ELSE LET cached == [start EXCEPT !.currentRuleMode = config.ruleMode,
                                     !.neighborhoodDefinition = config.neighborhood]
         IN IF config.ruleMode = "dll"
            THEN LET loaded == loadRuleLibrary(cached, config.dllPath, config.functionName, fs)
                 IN IF loaded[2] = "exit" THEN loaded
                    ELSE IF loaded[2] = "false" THEN logError(TRUE, loaded[1], "false")
                    ELSE <<[loaded[1] EXCEPT !.ruleTrie = NewTrie, !.initialized = TRUE], "true">>
            ELSE IF config.ruleMode = "trie"
                 THEN IF /\ Len(config.neighborhood) = 0 /\ Len(config.rules) # 0
                         /\ logError(TRUE, cached, "continue")[2] = "exit"
                      THEN <<[cached EXCEPT !.ruleTrie = NewTrie], "exit">>
                      ELSE <<[cached EXCEPT
                                !.ruleTrie = insertRows(NewTrie, config.rules,
                                                        Len(config.neighborhood), 1),
                                !.initialized = TRUE], "true">>
                 ELSE logError(TRUE, cached, "false")

\* CellSpace::getNeighborStates
\* the variant that collects the states from the last offset to the first
RECURSIVE getNeighborStatesReversed(_, _, _, _)
getNeighborStatesReversed(cells, d, centerCoordinates, offsets) ==
    IF Len(offsets) = 0 THEN <<>>
    ELSE getNeighborStatesReversed(cells, d, centerCoordinates, Tail(offsets))
         \o <<getCellState(cells, d, PointAdd(centerCoordinates, offsets[1]))>>

RECURSIVE getNeighborStates(_, _, _, _)
getNeighborStates(cells, d, centerCoordinates, offsets) ==
    IF Len(offsets) = 0 THEN <<>>
    ELSE <<getCellState(cells, d, PointAdd(centerCoordinates, offsets[1]))>>
         \o getNeighborStates(cells, d, centerCoordinates, Tail(offsets))

\* the rule functions a library can export, each applied to the array it is
\* handed (update of plugins/life.cpp and its kin): "first" copies entry 0,
\* "count" returns 1 exactly when one entry is 1, "one" always returns 1
CountOnes(ns) == Cardinality({i \in DOMAIN ns : ns[i] = 1})

\* an update that counts the cell itself among its live neighbors
updateCountsSelf(neighborStates) ==
    LET liveNeighbors == Cardinality({i \in 1..9 : neighborStates[i] = 1}) IN
    IF neighborStates[9] = 1
    THEN IF liveNeighbors < 2 THEN 0
         ELSE IF liveNeighbors = 2 \/ liveNeighbors = 3 THEN 1
         ELSE 0
    ELSE IF liveNeighbors = 3 THEN 1 ELSE 0

\* update of plugins/life.cpp: entries 0..7 of the array are the neighbors
\* and entry 8 is the cell itself (1-based here: 1..8 and 9)
update(neighborStates) ==
    LET liveNeighbors == Cardinality({i \in 1..8 : neighborStates[i] = 1}) IN
    IF neighborStates[9] = 1
    THEN IF liveNeighbors < 2 THEN 0
         ELSE IF liveNeighbors = 2 \/ liveNeighbors = 3 THEN 1
         ELSE 0
    ELSE IF liveNeighbors = 3 THEN 1 ELSE 0

dllCall(fn, ns) ==
    IF fn = "update" THEN update(ns)
    ELSE IF fn = "first" THEN (IF Len(ns) = 0 THEN 0 ELSE ns[1])
    ELSE IF fn = "count" THEN (IF CountOnes(ns) = 1 THEN 1 ELSE 0)
    ELSE 1

\* a resolution that falls back to the default state on no match
resolveNextStateResetOnMiss(eng, d, currentCellState, neighborStatesPattern) ==
    IF eng.currentRuleMode = "dll"
    THEN IF eng.dllRuleFunction # NULL
         THEN dllCall(eng.dllRuleFunction, neighborStatesPattern)
         ELSE currentCellState
    ELSE IF eng.currentRuleMode = "trie"
         THEN LET nextStateFromRule == findNextState(eng.ruleTrie, neighborStatesPattern)
              IN IF nextStateFromRule # NO_RULE_FOUND THEN nextStateFromRule
                 ELSE d
         ELSE currentCellState

\* the mode switch of RuleEngine::calculateNextGeneration (lines 229-247)
resolveNextState(eng, d, currentCellState, neighborStatesPattern) ==
    IF eng.currentRuleMode = "dll"
    THEN IF eng.dllRuleFunction # NULL
         THEN dllCall(eng.dllRuleFunction, neighborStatesPattern)
         ELSE currentCellState
    ELSE IF eng.currentRuleMode = "trie"
         THEN LET nextStateFromRule == findNextState(eng.ruleTrie, neighborStatesPattern)
              IN IF nextStateFromRule # NO_RULE_FOUND THEN nextStateFromRule
                 ELSE currentCellState
         ELSE currentCellState

\* the std::set cellsToEvaluate built by calculateNextGeneration (lines 208-220)
evaluationSet(cells, offsets) ==
    DOMAIN cells \cup
    {PointAdd(c, offset) : c \in DOMAIN cells, offset \in Range(offsets)}

\* the iteration order of a std::set<Point>
RECURSIVE setOrder(_)
setOrder(S) ==
    IF S = {} THEN <<>>
    ELSE LET least == CHOOSE p \in S : \A q \in S \ {p} : PointLess(p, q)
         IN <<least>> \o setOrder(S \ {least})

\* an evaluation loop that writes each new state into the grid it reads
RECURSIVE evaluateInPlace(_, _, _, _, _)
evaluateInPlace(eng, cells, d, order, i) ==
    IF i > Len(order) THEN <<>>
    ELSE LET cellCoord == order[i]
             currentCellState == getCellState(cells, d, cellCoord)
             nextState == resolveNextState(eng, d, currentCellState,
                              getNeighborStates(cells, d, cellCoord, eng.neighborhoodDefinition))
         IN IF nextState # currentCellState
            THEN <<<<cellCoord, nextState>>>>
                 \o evaluateInPlace(eng, MapPut(cells, cellCoord, nextState), d, order, i + 1)
            ELSE evaluateInPlace(eng, cells, d, order, i + 1)

\* an evaluation loop that reports every evaluated cell
RECURSIVE evaluateAll(_, _, _, _, _)
evaluateAll(eng, cells, d, order, i) ==
    IF i > Len(order) THEN <<>>
    ELSE LET cellCoord == order[i]
             currentCellState == getCellState(cells, d, cellCoord)
             nextState == resolveNextState(eng, d, currentCellState,
                              getNeighborStates(cells, d, cellCoord, eng.neighborhoodDefinition))
         IN <<<<cellCoord, nextState>>>> \o evaluateAll(eng, cells, d, order, i + 1)

\* the for loop of calculateNextGeneration over cellsToEvaluate (lines 225-252)
RECURSIVE evaluateLoop(_, _, _, _, _)
evaluateLoop(eng, cells, d, order, i) ==
    IF i > Len(order) THEN <<>>
    ELSE LET cellCoord == order[i]
             currentCellState == getCellState(cells, d, cellCoord)
             nextState == resolveNextState(eng, d, currentCellState,
                              getNeighborStates(cells, d, cellCoord, eng.neighborhoodDefinition))
         IN IF nextState # currentCellState
            THEN <<<<cellCoord, nextState>>>> \o evaluateLoop(eng, cells, d, order, i + 1)
            ELSE evaluateLoop(eng, cells, d, order, i + 1)

\* RuleEngine::calculateNextGeneration; the pairs in the order they are emitted
calculateNextGeneration(eng, cells, d) ==
    IF ~eng.initialized THEN <<>>
    ELSE evaluateLoop(eng, cells, d,
                      setOrder(evaluationSet(cells, eng.neighborhoodDefinition)), 1)

----------------------------------------------------------------------------
(* The evaluation frontier of the CellSpace declared with cellsToEvaluate_ *)
(* and reverseNeighborhood_: its maintenance follows the specification of  *)
(* the grid (setCellState, applyChanges, loadCells, clear).                *)

\* {a + b | a, b in neighborhood}
influenceSet(offsets) ==
    {PointAdd(a, b) : a \in Range(offsets), b \in Range(offsets)}

\* p and every p + offset for offset in the influence set
frontierPatch(p, offsets) ==
    {p} \cup {PointAdd(p, o) : o \in influenceSet(offsets)}

\* setCellState: a state change adds the patch of the cell to the frontier
frontierAfterSet(frontier, cells, d, offsets, c, state) ==
    IF state # getCellState(cells, d, c)
    THEN frontier \cup frontierPatch(c, offsets)
    ELSE frontier

\* the per-pair setCellState calls of applyChanges
RECURSIVE frontierLoop(_, _, _, _, _, _)
frontierLoop(frontier, cells, d, offsets, upds, i) ==
    IF i > Len(upds) THEN frontier
    ELSE frontierLoop(frontierAfterSet(frontier, cells, d, offsets, upds[i][1], upds[i][2]),
                      updateCellsBody(<<[activeCells |-> cells, minGridBounds |-> InvalidMin,
                                         maxGridBounds |-> InvalidMax,
                                         boundsInitialized |-> FALSE], FALSE>>,
                                      d, upds[i])[1].activeCells,
                      d, offsets, upds, i + 1)

\* applyChanges: the frontier is cleared, then repopulated by the pairs
frontierAfterUpdates(cells, d, offsets, upds) ==
    frontierLoop({}, cells, d, offsets, upds, 1)

----------------------------------------------------------------------------
(* Inputs of the grid operations *)

\* the update maps handed to updateCells, each as the sequence of its pairs in
\* the order the unordered_map iterates them (any order; keys are distinct)
UpdateSeqsOver(pts, n) ==
    UNION {{[i \in 1..k |-> <<ps[i], ss[i]>>] :
               ps \in {f \in [1..k -> pts] : \A i, j \in 1..k : i # j => f[i] # f[j]},
               ss \in [1..k -> States]} : k \in 0..n}

UpdatePoints == {<<0, 0>>, <<1, 0>>, <<0, MaxY>>, <<MaxX, MaxY>>}
UpdateSeqs == UpdateSeqsOver(UpdatePoints, MaxBatch)

\* the cell maps a snapshot can hand to loadActiveCells: raw file contents,
\* so a stored value may equal the default state
LoadPoints == {<<0, 0>>, <<1, 1>>}
LoadMaps ==
    UNION {[D -> States] : D \in {E \in SUBSET LoadPoints : Cardinality(E) <= MaxBatch}}
LoadMins == {<<0, 0>>, <<1, 1>>}
LoadMaxs == {<<1, 1>>, <<MaxX, MaxY>>}

Population(cs) == Cardinality(DOMAIN cs.activeCells)

----------------------------------------------------------------------------
(* The CellSpace of src/src/ca/cell_space.cpp driven through its public    *)
(* operations.  lastOp names the operation and lastArg the branch it took. *)

Unused ==
    /\ UNCHANGED <<defaultState, neighborhood, cellsToEvaluate>>
    /\ UNCHANGED trieVars
    /\ UNCHANGED engineVars
    /\ UNCHANGED appVars
    /\ UNCHANGED fileVars

SetCellStateBranch(cs, d, c, state) ==
    IF state # d THEN "store"
    ELSE IF getCellState(cs.activeCells, d, c) = d THEN "absent"
    ELSE IF DOMAIN cs.activeCells = {c} THEN "erase-last"
    ELSE IF OnBoundary(cs, c) THEN "erase-boundary"
    ELSE "erase-interior"

UpdateCellsBranch(cs, d, upds) ==
    LET st == updateCellsLoop(<<cs, FALSE>>, d, upds, 1) IN
    IF Len(upds) = 0 THEN "empty"
    ELSE IF DOMAIN st[1].activeCells = {} THEN "emptied"
    ELSE IF st[2] THEN "recalculate"
    ELSE "keep"

SetCellState(c, state) ==
    LET cs == setCellState(Grid, defaultState, c, state) IN
    /\ pc = "idle"
    /\ Population(cs) <= MaxActive
    /\ SetGrid(cs)
    /\ lastOp' = "setCellState"
    /\ lastArg' = SetCellStateBranch(Grid, defaultState, c, state)
    /\ Unused

UpdateCells(upds) ==
    LET cs == updateCells(Grid, defaultState, upds) IN
    /\ pc = "idle"
    /\ Population(cs) <= MaxActive
    /\ SetGrid(cs)
    /\ lastOp' = "updateCells"
    /\ lastArg' = UpdateCellsBranch(Grid, defaultState, upds)
    /\ Unused

LoadActiveCells(cells, minB, maxB) ==
    /\ pc = "idle"
    /\ SetGrid(loadActiveCells(cells, minB, maxB))
    /\ lastOp' = "loadActiveCells"
    /\ lastArg' = IF DOMAIN cells = {} THEN "empty" ELSE "cells"
    /\ Unused

Clear ==
    /\ pc = "idle"
    /\ SetGrid(clear(Grid))
    /\ lastOp' = "clear"
    /\ lastArg' = "clear"
    /\ Unused

\* no data has been handed to the file_io layer
\* Application::Application (lines 12-27) leaves the loop fields at false,
\* 100 and 0; no Timer exists and nothing was accumulated
LoopInit ==
    /\ isRunning = FALSE
    /\ timePerUpdate = 100
    /\ simulationLag = 0
    /\ stepsExecuted = 0
    /\ lagAtUpdate = 0

TimerInit ==
    /\ timers = <<>>
    /\ s_accumulatedTimes = EmptyMap
    /\ clockNow = 0

FileInit ==
    /\ dataToCompress = <<>>
    /\ compressedData = <<>>
    /\ decompressedOutput = <<>>
    /\ heapOrder = "oldest"
    /\ serializedData = <<>>
    /\ savedCellSpace = NewCellSpace
    /\ snapshotResult = "none"
    /\ LoopInit
    /\ TimerInit

InitRest ==
    /\ ruleTrie = NewTrie
    /\ inserted = EmptyMap
    /\ initialized = FALSE
    /\ currentRuleMode = "trie"
    /\ neighborhoodDefinition = <<>>
    /\ dllHandle = NULL
    /\ dllRuleFunction = NULL
    /\ openHandles = 0
    /\ pc = "idle"
    /\ changes = <<>>
    /\ simulationPaused = TRUE
    /\ FileInit

Init ==
    /\ defaultState \in DefaultStates
    /\ activeCells = NewCellSpace.activeCells
    /\ minGridBounds = NewCellSpace.minGridBounds
    /\ maxGridBounds = NewCellSpace.maxGridBounds
    /\ boundsInitialized = NewCellSpace.boundsInitialized
    /\ neighborhood = <<>>
    /\ cellsToEvaluate = {}
    /\ lastOp = "new"
    /\ lastArg = "new"
    /\ InitRest

NextEdit ==
    \/ \E c \in Points, state \in States : SetCellState(c, state)
    \/ \E upds \in UpdateSeqs : UpdateCells(upds)
    \/ Clear

Next ==
    \/ \E c \in Points, state \in States : SetCellState(c, state)
    \/ \E upds \in UpdateSeqs : UpdateCells(upds)
    \/ \E cells \in LoadMaps, minB \in LoadMins, maxB \in LoadMaxs :
          LoadActiveCells(cells, minB, maxB)
    \/ Clear

\* sequences of setCellState, updateCells and clear on a new grid
SpecEdit == Init /\ [][NextEdit]_vars

\* sequences of setCellState, updateCells, loadActiveCells and clear
Spec == Init /\ [][Next]_vars

----------------------------------------------------------------------------
(* Properties of the grid *)

\* C1: a coordinate is a key of the stored map exactly when its state differs
\* from the default state; no stored entry holds the default state
GridSparsity ==
    /\ \A p \in Points :
          (p \in DOMAIN activeCells) <=>
          ((IF p \in DOMAIN activeCells THEN activeCells[p] ELSE defaultState) # defaultState)
    /\ \A p \in DOMAIN activeCells : activeCells[p] # defaultState

\* a cell was stored, overwritten or removed and the map is still sparse
GridSparsityWitness ==
    /\ lastOp = "updateCells" /\ lastArg = "recalculate"
    /\ Cardinality(DOMAIN activeCells) = 2
    /\ \E p \in DOMAIN activeCells : activeCells[p] = 2

\* C6: the bounds flag is false exactly when no cell is stored
BoundsValidity == (boundsInitialized = FALSE) <=> (DOMAIN activeCells = {})

\* the last cell was removed, or a snapshot load filled the grid
BoundsValidityWitness ==
    /\ lastOp = "loadActiveCells" /\ lastArg = "cells"
    /\ boundsInitialized

TightMin(keys) ==
    <<CHOOSE x \in {k[1] : k \in keys} : \A k \in keys : x <= k[1],
      CHOOSE y \in {k[2] : k \in keys} : \A k \in keys : y <= k[2]>>
TightMax(keys) ==
    <<CHOOSE x \in {k[1] : k \in keys} : \A k \in keys : x >= k[1],
      CHOOSE y \in {k[2] : k \in keys} : \A k \in keys : y >= k[2]>>

\* C7: with at least one stored cell the bounds are the exact componentwise
\* minimum and maximum of the stored coordinates
BoundsTightness ==
    DOMAIN activeCells # {} =>
        /\ minGridBounds = TightMin(DOMAIN activeCells)
        /\ maxGridBounds = TightMax(DOMAIN activeCells)

\* a boundary cell was set back to the default state and the box shrank
BoundsTightnessWitness ==
    /\ lastOp = "setCellState" /\ lastArg = "erase-boundary"
    /\ minGridBounds = <<1, 1>> /\ maxGridBounds = <<1, 1>>

----------------------------------------------------------------------------
(* A Trie driven through insertRule; inserted maps every sequence that was *)
(* inserted to the result of its last insertRule call.                     *)

InsertRule(rulePrefix, resultState) ==
    /\ ruleTrie' = insertRule(ruleTrie, rulePrefix, resultState)
    /\ inserted' = MapPut(inserted, rulePrefix, resultState)
    /\ UNCHANGED <<activeCells, minGridBounds, maxGridBounds, boundsInitialized,
                   defaultState, neighborhood, cellsToEvaluate, lastOp, lastArg>>
    /\ UNCHANGED engineVars
    /\ UNCHANGED appVars
    /\ UNCHANGED fileVars

InitTrie ==
    /\ ruleTrie = NewTrie
    /\ inserted = EmptyMap
    /\ defaultState = 0
    /\ activeCells = NewCellSpace.activeCells
    /\ minGridBounds = NewCellSpace.minGridBounds
    /\ maxGridBounds = NewCellSpace.maxGridBounds
    /\ boundsInitialized = NewCellSpace.boundsInitialized
    /\ neighborhood = <<>>
    /\ cellsToEvaluate = {}
    /\ lastOp = "new"
    /\ lastArg = "new"
    /\ initialized = FALSE
    /\ currentRuleMode = "trie"
    /\ neighborhoodDefinition = <<>>
    /\ dllHandle = NULL
    /\ dllRuleFunction = NULL
    /\ openHandles = 0
    /\ pc = "idle"
    /\ changes = <<>>
    /\ simulationPaused = TRUE
    /\ FileInit

NextTrie ==
    \E rulePrefix \in TrieKeys, resultState \in TrieResults :
        InsertRule(rulePrefix, resultState)

SpecTrie == InitTrie /\ [][NextTrie]_vars

\* C9: findNextState returns a result value exactly for the sequences that
\* were inserted, whatever result was inserted, and NO_RULE_FOUND for a strict
\* prefix or strict extension of an inserted sequence that was not inserted
TrieExactness ==
    \A probe \in TrieProbes :
        /\ (findNextState(ruleTrie, probe) # NO_RULE_FOUND) <=> (probe \in DOMAIN inserted)
        /\ probe \in DOMAIN inserted => findNextState(ruleTrie, probe) = inserted[probe]

\* what the trie does guarantee: the stored result comes back, and a sequence
\* that was never inserted yields NO_RULE_FOUND
TrieLookupReturnsStored ==
    \A probe \in TrieProbes :
        findNextState(ruleTrie, probe) =
            IF probe \in DOMAIN inserted THEN inserted[probe] ELSE NO_RULE_FOUND

TrieLookupWitness ==
    \E s, t \in DOMAIN inserted :
        /\ IsStrictPrefix(s, t)
        /\ \E u \in TrieKeys : IsStrictPrefix(u, t) /\ u \notin DOMAIN inserted

----------------------------------------------------------------------------
(* Inputs of the engine: neighborhoods, rule rows and tables, libraries *)

MaxRules == 2

NRight == << <<1, 0>> >>
NSym == << <<-1, 0>>, <<1, 0>> >>
Neighborhoods == {<<>>, NRight, NSym}

\* the cells the brush can paint and a step may populate
SimPoints == (0..MaxX) \X {0}
\* every coordinate whose neighborhood can meet a cell of SimPoints
Plane == (-1..(MaxX + 1)) \X {0}

\* rows of a "rules" array: well-formed rows over the rule symbols, an empty
\* row, a short row and a row of an undeclared state
RuleRows(n) ==
    [1..(n + 1) -> TrieSyms] \cup {<<>>, [i \in 1..n |-> 1], [i \in 1..(n + 1) |-> MaxState]}
RuleTables(n) == SeqsUpTo(RuleRows(n), MaxRules)

\* Rule::Rule
NewRule ==
    [loaded |-> FALSE, states |-> <<>>, defaultState |-> 0, neighborhood |-> <<>>,
     ruleMode |-> "trie", rules |-> <<>>, dllPath |-> "", functionName |-> ""]

\* a parseRuleSettings that drops a bad row and goes on with the next
RECURSIVE parseRuleRowsSkipping(_, _, _, _, _)
parseRuleRowsSkipping(rules, states, nbLen, items, i) ==
    IF i > Len(items) THEN <<rules, TRUE>>
    ELSE LET current_rule == items[i] IN
         IF nbLen # 0 /\ Len(current_rule) # nbLen + 1
         THEN parseRuleRowsSkipping(rules, states, nbLen, items, i + 1)
         ELSE IF \E k \in DOMAIN current_rule : current_rule[k] \notin Range(states)
              THEN parseRuleRowsSkipping(rules, states, nbLen, items, i + 1)
              ELSE parseRuleRowsSkipping(Append(rules, current_rule), states, nbLen,
                                         items, i + 1)

\* the loop of Rule::parseRuleSettings over the "rules" array for a non-empty
\* or empty neighborhood; the pair <<rules_, parsed without error>>
RECURSIVE parseRuleRows(_, _, _, _, _)
parseRuleRows(rules, states, nbLen, items, i) ==
    IF i > Len(items) THEN <<rules, TRUE>>
    ELSE LET current_rule == items[i] IN
         IF nbLen # 0 /\ Len(current_rule) # nbLen + 1 THEN <<rules, FALSE>>
         ELSE IF \E k \in DOMAIN current_rule : current_rule[k] \notin Range(states)
              THEN <<rules, FALSE>>
              ELSE parseRuleRows(Append(rules, current_rule), states, nbLen, items, i + 1)

\* Rule::parseRuleSettings; the pair <<rule, returned bool>>
parseRuleSettings(rule, j) ==
    LET reset == [rule EXCEPT !.ruleMode = j.rule_mode, !.rules = <<>>,
                              !.dllPath = "", !.functionName = ""]
    IN IF j.rule_mode = "dll"
       THEN <<[reset EXCEPT !.dllPath = j.rule_dll_path,
                            !.functionName = j.rule_function_name], TRUE>>
       ELSE IF j.rule_mode = "trie"
            THEN IF Len(rule.neighborhood) = 0 /\ Len(j.rules) # 0 THEN <<reset, FALSE>>
                 ELSE LET rows == parseRuleRows(<<>>, rule.states,
                                                Len(rule.neighborhood), j.rules, 1)
                      IN <<[reset EXCEPT !.rules = rows[1]], rows[2]>>
            ELSE <<reset, FALSE>>

\* Rule::loadFromFile on a fresh Rule: parseStates, parseDefaultState,
\* parseNeighborhood, parseRuleSettings in turn, each failure returning false
\* with loadedSuccessfully_ left false (the colour map is taken as valid)
loadFromFile(j) ==
    IF ~j.readable THEN NewRule
    ELSE LET withStates == [NewRule EXCEPT !.states = j.states] IN
         IF Len(j.states) = 0 THEN withStates
         ELSE LET withDefault == [withStates EXCEPT !.defaultState = j.default_state] IN
              IF j.default_state \notin Range(j.states) THEN withDefault
              ELSE LET withNeighborhood ==
                           [withDefault EXCEPT !.neighborhood = j.neighborhood]
                       parsed == parseRuleSettings(withNeighborhood, j)
                   IN IF ~parsed[2] THEN parsed[1]
                      ELSE [parsed[1] EXCEPT !.loaded = TRUE]

\* the configuration files offered to the program: tables of rows over the
\* rule symbols for each neighborhood, with well-formed rows, an empty row, a
\* short row and a row naming a state that "states" does not declare
ConfigStates == [i \in 1..(MaxSym + 1) |-> i - 1]
TrieFiles ==
    UNION {{[readable |-> TRUE, states |-> ConfigStates, default_state |-> d,
             neighborhood |-> nb, rule_mode |-> "trie", rules |-> t,
             rule_dll_path |-> "", rule_function_name |-> ""] :
                d \in DefaultStates, t \in RuleTables(Len(nb))}
           : nb \in Neighborhoods}
DllFiles ==
    {[readable |-> TRUE, states |-> ConfigStates, default_state |-> d,
      neighborhood |-> nb, rule_mode |-> "dll", rules |-> <<>>,
      rule_dll_path |-> path, rule_function_name |-> fn] :
        d \in DefaultStates, nb \in Neighborhoods,
        path \in {"", "plugins/rule"}, fn \in {"first", "count", "one"}}
OtherFiles ==
    {[readable |-> FALSE, states |-> <<>>, default_state |-> 0,
      neighborhood |-> <<>>, rule_mode |-> "trie", rules |-> <<>>,
      rule_dll_path |-> "", rule_function_name |-> ""],
     [readable |-> TRUE, states |-> ConfigStates, default_state |-> MaxState,
      neighborhood |-> NRight, rule_mode |-> "trie", rules |-> <<>>,
      rule_dll_path |-> "", rule_function_name |-> ""],
     [readable |-> TRUE, states |-> ConfigStates, default_state |-> 0,
      neighborhood |-> NRight, rule_mode |-> "lua", rules |-> <<>>,
      rule_dll_path |-> "", rule_function_name |-> ""]}
ConfigFiles == TrieFiles \cup DllFiles \cup OtherFiles

FileSystems == [library : BOOLEAN, symbol : BOOLEAN]
\* only a "dll" configuration looks at the file system
FileSystemsFor(j) ==
    IF j.rule_mode = "dll" THEN FileSystems
    ELSE {[library |-> TRUE, symbol |-> TRUE]}

\* the orders in which an unordered_map holding the pairs of seq can iterate
PermSeqs(seq) ==
    {f \in [1..Len(seq) -> Range(seq)] :
        \A i, j \in 1..Len(seq) : i # j => f[i] # f[j]}

----------------------------------------------------------------------------
(* The application: engine initialisation, the brush, pause, and the tick  *)
(* Application::updateSimulation in its two halves (the call of            *)
(* calculateNextGeneration, then the call of updateCells).                 *)

Engine ==
    [initialized |-> initialized, currentRuleMode |-> currentRuleMode,
     neighborhoodDefinition |-> neighborhoodDefinition, ruleTrie |-> ruleTrie,
     dllHandle |-> dllHandle, dllRuleFunction |-> dllRuleFunction,
     openHandles |-> openHandles]

SetEngine(eng) ==
    /\ initialized' = eng.initialized
    /\ currentRuleMode' = eng.currentRuleMode
    /\ neighborhoodDefinition' = eng.neighborhoodDefinition
    /\ ruleTrie' = eng.ruleTrie
    /\ dllHandle' = eng.dllHandle
    /\ dllRuleFunction' = eng.dllRuleFunction
    /\ openHandles' = eng.openHandles

\* Application::initializeSubsystems: the configuration file is loaded (a
\* failure is fatal, line 81), the CellSpace is built with its default state
\* (line 90) and the engine is initialized (line 119, a failure is fatal)
Initialize(j, fs) ==
    LET config == loadFromFile(j)
        done == initialize(Engine, config, fs)
    IN /\ pc = "start"
       /\ lastOp' = "initialize"
       /\ IF ~config.loaded
          THEN /\ pc' = "exited"
               /\ lastArg' = "failed"
               /\ UNCHANGED <<defaultState, ruleTrie>>
               /\ UNCHANGED gridVars
               /\ UNCHANGED engineVars
          ELSE /\ defaultState' = config.defaultState
               /\ SetGrid(NewCellSpace)
               /\ SetEngine(done[1])
               /\ pc' = IF done[2] = "true" THEN "idle" ELSE "exited"
               /\ lastArg' = IF done[2] = "true" THEN "ok" ELSE "failed"
       /\ UNCHANGED <<neighborhood, cellsToEvaluate, inserted, changes, simulationPaused>>
       /\ UNCHANGED fileVars

\* Application::togglePause
TogglePause ==
    /\ pc = "idle"
    /\ simulationPaused' = ~simulationPaused
    /\ lastOp' = "togglePause"
    /\ lastArg' = "togglePause"
    /\ UNCHANGED gridVars
    /\ UNCHANGED <<defaultState, neighborhood, cellsToEvaluate, pc, changes>>
    /\ UNCHANGED trieVars
    /\ UNCHANGED engineVars
    /\ UNCHANGED fileVars

\* Application::updateSimulation, the early return (line 284)
UpdateSimulationReturn ==
    /\ pc = "idle"
    /\ simulationPaused \/ ~initialized
    /\ lastOp' = "updateSimulation"
    /\ lastArg' = "returned"
    /\ UNCHANGED gridVars
    /\ UNCHANGED <<defaultState, neighborhood, cellsToEvaluate>>
    /\ UNCHANGED trieVars
    /\ UNCHANGED engineVars
    /\ UNCHANGED appVars
    /\ UNCHANGED fileVars

\* Application::updateSimulation, the call of calculateNextGeneration (line 287)
UpdateSimulationStep ==
    /\ pc = "idle"
    /\ ~(simulationPaused \/ ~initialized)
    /\ changes' = calculateNextGeneration(Engine, activeCells, defaultState)
    /\ pc' = "computed"
    /\ lastOp' = "calculateNextGeneration"
    /\ lastArg' = "computed"
    /\ UNCHANGED gridVars
    /\ UNCHANGED <<defaultState, neighborhood, cellsToEvaluate, simulationPaused>>
    /\ UNCHANGED trieVars
    /\ UNCHANGED engineVars
    /\ UNCHANGED fileVars

\* Application::updateSimulation, changes.empty() (line 288): nothing is applied
UpdateSimulationSkip ==
    /\ pc = "computed"
    /\ changes = <<>>
    /\ pc' = "idle"
    /\ lastOp' = "updateSimulation"
    /\ lastArg' = "unchanged"
    /\ UNCHANGED gridVars
    /\ UNCHANGED <<defaultState, neighborhood, cellsToEvaluate, changes, simulationPaused>>
    /\ UNCHANGED trieVars
    /\ UNCHANGED engineVars
    /\ UNCHANGED fileVars

\* Application::updateSimulation, the call of updateCells (line 289)
UpdateSimulationApply ==
    /\ pc = "computed"
    /\ changes # <<>>
    /\ \A i \in DOMAIN changes : changes[i][1] \in SimPoints
    /\ \E upds \in PermSeqs(changes) : SetGrid(updateCells(Grid, defaultState, upds))
    /\ pc' = "idle"
    /\ changes' = <<>>
    /\ lastOp' = "updateSimulation"
    /\ lastArg' = "applied"
    /\ UNCHANGED <<defaultState, neighborhood, cellsToEvaluate, simulationPaused>>
    /\ UNCHANGED trieVars
    /\ UNCHANGED engineVars
    /\ UNCHANGED fileVars

InitEngine ==
    /\ defaultState = 0
    /\ activeCells = NewCellSpace.activeCells
    /\ minGridBounds = NewCellSpace.minGridBounds
    /\ maxGridBounds = NewCellSpace.maxGridBounds
    /\ boundsInitialized = NewCellSpace.boundsInitialized
    /\ neighborhood = <<>>
    /\ cellsToEvaluate = {}
    /\ lastOp = "new"
    /\ lastArg = "new"
    /\ inserted = EmptyMap
    /\ initialized = NewRuleEngine.initialized
    /\ currentRuleMode = NewRuleEngine.currentRuleMode
    /\ neighborhoodDefinition = NewRuleEngine.neighborhoodDefinition
    /\ ruleTrie = NewRuleEngine.ruleTrie
    /\ dllHandle = NewRuleEngine.dllHandle
    /\ dllRuleFunction = NewRuleEngine.dllRuleFunction
    /\ openHandles = NewRuleEngine.openHandles
    /\ pc = "start"
    /\ changes = <<>>
    /\ simulationPaused = TRUE
    /\ FileInit

NextEngine ==
    \/ \E j \in ConfigFiles : \E fs \in FileSystemsFor(j) : Initialize(j, fs)
    \/ \E c \in SimPoints, state \in States : SetCellState(c, state)
    \/ TogglePause
    \/ UpdateSimulationReturn
    \/ UpdateSimulationStep
    \/ UpdateSimulationSkip
    \/ UpdateSimulationApply

\* the engine of rule_engine.cpp over the grid of cell_space.cpp
SpecEngine == InitEngine /\ [][NextEngine]_vars

----------------------------------------------------------------------------
(* Properties of one simulation step *)

\* the state of coordinate p in the grid, stored or default
StateAt(p) == IF p \in DOMAIN activeCells THEN activeCells[p] ELSE defaultState

\* the neighbor states of p in neighborhood order
PatternAt(p) ==
    [i \in 1..Len(neighborhoodDefinition) |->
        StateAt(PointAdd(p, neighborhoodDefinition[i]))]

\* the next state the rule gives p in the grid as it is
ResolvedAt(p) == resolveNextState(Engine, defaultState, StateAt(p), PatternAt(p))

ChangedPoints == {changes[i][1] : i \in DOMAIN changes}

\* the rule maps the all-default pattern to the default state
AllDefaultIsQuiescent ==
    resolveNextState(Engine, defaultState, defaultState,
                     [i \in 1..Len(neighborhoodDefinition) |-> defaultState]) = defaultState

\* C3: the delta of a step equals the delta of resolving the rule at every
\* coordinate of the plane against the same grid
IncrementalEqualsFull ==
    (pc = "computed" /\ AllDefaultIsQuiescent) =>
        Range(changes) = {<<p, ResolvedAt(p)>> : p \in {q \in Plane : ResolvedAt(q) # StateAt(q)}}

\* C4: the step leaves the grid as it was and computes every next state from
\* that grid; the grid then changes only by applying the complete delta
SynchronousStep ==
    [][/\ (pc = "idle" /\ pc' = "computed") =>
             /\ UNCHANGED <<activeCells, minGridBounds, maxGridBounds,
                            boundsInitialized, cellsToEvaluate, defaultState>>
             /\ \A i \in DOMAIN changes' : changes'[i][2] = ResolvedAt(changes'[i][1])
       /\ (pc = "computed" /\ changes # <<>> /\ pc' = "idle") =>
             \A p \in Plane :
                 (IF p \in DOMAIN activeCells' THEN activeCells'[p] ELSE defaultState) =
                 (IF \E i \in DOMAIN changes : changes[i][1] = p
                  THEN (CHOOSE pair \in Range(changes) : pair[1] = p)[2]
                  ELSE StateAt(p))
      ]_vars

\* a step has computed a delta of two cells, each from its neighbor's state
SynchronousStepWitness ==
    /\ pc = "computed" /\ Len(changes) = 2
    /\ neighborhoodDefinition = NSym
    /\ Cardinality(DOMAIN activeCells) = 2

\* C5: an evaluated coordinate is in the delta exactly when its resolved next
\* state differs from its current state; a library's return value is stored as is
TrueDiff ==
    pc = "computed" =>
        /\ \A p \in evaluationSet(activeCells, neighborhoodDefinition) :
              (p \in ChangedPoints) <=> (ResolvedAt(p) # StateAt(p))
        /\ \A i \in DOMAIN changes :
              /\ changes[i][2] # StateAt(changes[i][1])
              /\ (currentRuleMode = "dll" /\ dllRuleFunction # NULL) =>
                    changes[i][2] = dllCall(dllRuleFunction, PatternAt(changes[i][1]))

\* a library rule changed one evaluated cell and left another as it was
TrueDiffWitness ==
    /\ pc = "computed" /\ currentRuleMode = "dll" /\ dllRuleFunction = "count"
    /\ changes # <<>>
    /\ \E p \in evaluationSet(activeCells, neighborhoodDefinition) : p \notin ChangedPoints

\* C10: in table mode an evaluated cell whose pattern has no complete rule is
\* not in the delta
IdentityOnNoMatch ==
    (pc = "computed" /\ currentRuleMode = "trie") =>
        \A p \in evaluationSet(activeCells, neighborhoodDefinition) :
            findNextState(ruleTrie, PatternAt(p)) = NO_RULE_FOUND => p \notin ChangedPoints

\* a non-default cell had no matching rule while another cell changed
IdentityOnNoMatchWitness ==
    /\ pc = "computed" /\ currentRuleMode = "trie" /\ changes # <<>>
    /\ \E p \in DOMAIN activeCells :
          /\ findNextState(ruleTrie, PatternAt(p)) = NO_RULE_FOUND
          /\ p \notin ChangedPoints

----------------------------------------------------------------------------
(* The frontier-bearing CellSpace driven through its operations.  lastArg  *)
(* is the argument of the last call: the pairs handed to updateCells, the  *)
(* pair handed to setCellState.                                            *)

FrontierPoints == {<<0, 0>>, <<1, 0>>, <<0, 1>>}
FrontierUpdateSeqs == UpdateSeqsOver({<<0, 0>>, <<1, 0>>}, MaxBatch)

FrontierSetCellState(c, state) ==
    /\ pc = "idle"
    /\ SetGrid(setCellState(Grid, defaultState, c, state))
    /\ cellsToEvaluate' =
          frontierAfterSet(cellsToEvaluate, activeCells, defaultState, neighborhood, c, state)
    /\ lastOp' = "setCellState"
    /\ lastArg' = <<c, state>>
    /\ UNCHANGED <<defaultState, neighborhood>>
    /\ UNCHANGED trieVars
    /\ UNCHANGED engineVars
    /\ UNCHANGED appVars
    /\ UNCHANGED fileVars

FrontierUpdateCells(upds) ==
    /\ pc = "idle"
    /\ SetGrid(updateCells(Grid, defaultState, upds))
    /\ cellsToEvaluate' = frontierAfterUpdates(activeCells, defaultState, neighborhood, upds)
    /\ lastOp' = "updateCells"
    /\ lastArg' = upds
    /\ UNCHANGED <<defaultState, neighborhood>>
    /\ UNCHANGED trieVars
    /\ UNCHANGED engineVars
    /\ UNCHANGED appVars
    /\ UNCHANGED fileVars

FrontierClear ==
    /\ pc = "idle"
    /\ SetGrid(clear(Grid))
    /\ cellsToEvaluate' = {}
    /\ lastOp' = "clear"
    /\ lastArg' = "clear"
    /\ UNCHANGED <<defaultState, neighborhood>>
    /\ UNCHANGED trieVars
    /\ UNCHANGED engineVars
    /\ UNCHANGED appVars
    /\ UNCHANGED fileVars

InitFrontier ==
    /\ defaultState \in DefaultStates
    /\ neighborhood \in Neighborhoods
    /\ activeCells = NewCellSpace.activeCells
    /\ minGridBounds = NewCellSpace.minGridBounds
    /\ maxGridBounds = NewCellSpace.maxGridBounds
    /\ boundsInitialized = NewCellSpace.boundsInitialized
    /\ cellsToEvaluate = {}
    /\ lastOp = "new"
    /\ lastArg = "new"
    /\ InitRest

NextFrontier ==
    \/ \E c \in FrontierPoints, state \in States : FrontierSetCellState(c, state)
    \/ \E upds \in FrontierUpdateSeqs : FrontierUpdateCells(upds)
    \/ FrontierClear

SpecFrontier == InitFrontier /\ [][NextFrontier]_vars

----------------------------------------------------------------------------
(* The application over the frontier-bearing CellSpace *)

\* the configuration files of a default state 0
SimFiles == {j \in ConfigFiles : j.default_state = 0}

\* the CellSpace is built with the neighborhood of the configuration
InitializeSim(j, fs) ==
    /\ loadFromFile(j).loaded => j.neighborhood = neighborhood
    /\ Initialize(j, fs)

FrontierUpdateSimulationApply ==
    /\ pc = "computed"
    /\ changes # <<>>
    /\ \A i \in DOMAIN changes : changes[i][1] \in SimPoints
    /\ \E upds \in PermSeqs(changes) :
          /\ SetGrid(updateCells(Grid, defaultState, upds))
          /\ cellsToEvaluate' =
                frontierAfterUpdates(activeCells, defaultState, neighborhood, upds)
    /\ pc' = "idle"
    /\ changes' = <<>>
    /\ lastOp' = "updateSimulation"
    /\ lastArg' = "applied"
    /\ UNCHANGED <<defaultState, neighborhood, simulationPaused>>
    /\ UNCHANGED trieVars
    /\ UNCHANGED engineVars
    /\ UNCHANGED fileVars

InitSim ==
    /\ neighborhood \in Neighborhoods
    /\ defaultState = 0
    /\ activeCells = NewCellSpace.activeCells
    /\ minGridBounds = NewCellSpace.minGridBounds
    /\ maxGridBounds = NewCellSpace.maxGridBounds
    /\ boundsInitialized = NewCellSpace.boundsInitialized
    /\ cellsToEvaluate = {}
    /\ lastOp = "new"
    /\ lastArg = "new"
    /\ ruleTrie = NewRuleEngine.ruleTrie
    /\ inserted = EmptyMap
    /\ initialized = NewRuleEngine.initialized
    /\ currentRuleMode = NewRuleEngine.currentRuleMode
    /\ neighborhoodDefinition = NewRuleEngine.neighborhoodDefinition
    /\ dllHandle = NewRuleEngine.dllHandle
    /\ dllRuleFunction = NewRuleEngine.dllRuleFunction
    /\ openHandles = NewRuleEngine.openHandles
    /\ pc = "start"
    /\ changes = <<>>
    /\ simulationPaused = TRUE
    /\ FileInit

NextSim ==
    \/ \E j \in SimFiles : \E fs \in FileSystemsFor(j) : InitializeSim(j, fs)
    \/ \E c \in SimPoints, state \in States : FrontierSetCellState(c, state)
    \/ TogglePause
    \/ UpdateSimulationReturn
    \/ UpdateSimulationStep
    \/ UpdateSimulationSkip
    \/ FrontierUpdateSimulationApply

SpecSim == InitSim /\ [][NextSim]_vars

\* C8: when every evaluated pattern resolves to the cell's current state the
\* step returns an empty delta, the cells stay, and the frontier is empty once
\* the application has finished the tick
NoOpStepEmptiesFrontier ==
    /\ (pc = "computed" /\ \A p \in evaluationSet(activeCells, neighborhoodDefinition) :
                              ResolvedAt(p) = StateAt(p)) => changes = <<>>
    /\ (lastOp = "updateSimulation" /\ lastArg = "unchanged") => cellsToEvaluate = {}

----------------------------------------------------------------------------
(* The RuleEngine driven through its public interface (initialize,         *)
(* calculateNextGeneration, the destructor) by a caller that owns the      *)
(* CellSpace and the configuration files.  lastArg of an initialize is the *)
(* record of the file, the file system and the outcome of the call.        *)

\* the outcome of a calculateNextGeneration call: "returned", or "exit" when
\* a fatal error is logged (lines 203-206 and 235-237)
calculateNextGenerationOutcome(eng, cells) ==
    IF ~eng.initialized THEN logError(TRUE, eng, "returned")[2]
    ELSE IF /\ eng.currentRuleMode = "dll" /\ eng.dllRuleFunction = NULL
            /\ evaluationSet(cells, eng.neighborhoodDefinition) # {}
         THEN logError(TRUE, eng, "returned")[2]
         ELSE "returned"

ApiPoints == {<<0, 0>>, <<1, 0>>}
\* the configuration files of one neighborhood and default state 0, and the
\* file that cannot be read
ApiFiles == {j \in ConfigFiles : ~j.readable \/ (j.neighborhood = NRight /\ j.default_state = 0)}

ApiInitialize(j, fs) ==
    LET done == initialize(Engine, loadFromFile(j), fs) IN
    /\ pc = "idle"
    /\ SetEngine(done[1])
    /\ pc' = IF done[2] = "exit" THEN "exited" ELSE "idle"
    /\ lastOp' = "initialize"
    /\ lastArg' = [file |-> j, fs |-> fs, returned |-> done[2]]
    /\ UNCHANGED gridVars
    /\ UNCHANGED <<defaultState, neighborhood, cellsToEvaluate, inserted,
                   changes, simulationPaused>>
    /\ UNCHANGED fileVars

ApiCalculateNextGeneration ==
    LET outcome == calculateNextGenerationOutcome(Engine, activeCells) IN
    /\ pc = "idle"
    /\ changes' = IF outcome = "exit" THEN <<>>
                  ELSE calculateNextGeneration(Engine, activeCells, defaultState)
    /\ pc' = IF outcome = "exit" THEN "exited" ELSE "idle"
    /\ lastOp' = "calculateNextGeneration"
    /\ lastArg' = outcome
    /\ UNCHANGED gridVars
    /\ UNCHANGED <<defaultState, neighborhood, cellsToEvaluate, simulationPaused>>
    /\ UNCHANGED trieVars
    /\ UNCHANGED engineVars
    /\ UNCHANGED fileVars

\* the caller applies the delta it was handed
ApiUpdateCells ==
    /\ changes # <<>>
    /\ \A i \in DOMAIN changes : changes[i][1] \in ApiPoints
    /\ \E upds \in PermSeqs(changes) : UpdateCells(upds)

\* RuleEngine::~RuleEngine
ApiDestroy ==
    /\ pc = "idle"
    /\ SetEngine(unloadRuleLibrary(Engine))
    /\ pc' = "destroyed"
    /\ lastOp' = "~RuleEngine"
    /\ lastArg' = "destroyed"
    /\ UNCHANGED gridVars
    /\ UNCHANGED <<defaultState, neighborhood, cellsToEvaluate, inserted,
                   changes, simulationPaused>>
    /\ UNCHANGED fileVars

InitApi ==
    /\ defaultState = 0
    /\ activeCells = NewCellSpace.activeCells
    /\ minGridBounds = NewCellSpace.minGridBounds
    /\ maxGridBounds = NewCellSpace.maxGridBounds
    /\ boundsInitialized = NewCellSpace.boundsInitialized
    /\ neighborhood = <<>>
    /\ cellsToEvaluate = {}
    /\ lastOp = "new"
    /\ lastArg = "new"
    /\ InitRest

NextApi ==
    \/ \E j \in ApiFiles : \E fs \in FileSystemsFor(j) : ApiInitialize(j, fs)
    \/ ApiCalculateNextGeneration
    \/ \E c \in ApiPoints, state \in States : SetCellState(c, state)
    \/ ApiUpdateCells
    \/ ApiDestroy

SpecApi == InitApi /\ [][NextApi]_vars

\* C11: after an initialize call the engine is initialized exactly when the
\* call succeeded, whatever it was before, and no other call changes the flag
EngineLifecycle ==
    [][/\ lastOp' = "initialize" => (initialized' <=> lastArg'.returned = "true")
       /\ lastOp' # "initialize" => initialized' = initialized
      ]_vars

\* an initialize failed on an engine that an earlier call had initialized
\* with a rule table
EngineLifecycleWitness ==
    /\ lastOp = "initialize" /\ lastArg.returned # "true"
    /\ ~initialized
    /\ ruleTrie # NewTrie

\* C12: calculateNextGeneration on an engine that is not initialized returns
\* an empty delta to its caller and leaves the process running
StepNotInitializedIsNonFatal ==
    (lastOp = "calculateNextGeneration" /\ ~initialized) =>
        (pc # "exited" /\ lastArg = "returned" /\ changes = <<>>)

\* a row of the "rules" array that is not neighborhood.size() + 1 long or
\* names a state that "states" does not declare
MalformedRow(j, row) ==
    \/ Len(row) # Len(j.neighborhood) + 1
    \/ \E k \in DOMAIN row : row[k] \notin Range(j.states)
HasMalformedRow(j) ==
    j.readable /\ j.rule_mode = "trie" /\ \E i \in DOMAIN j.rules : MalformedRow(j, j.rules[i])

PluginLoadFailureReturnsFalse ==
    (/\ lastOp = "initialize" /\ lastArg.file.readable /\ lastArg.file.rule_mode = "dll"
     /\ lastArg.file.rule_dll_path # ""
     /\ (~lastArg.fs.library \/ ~lastArg.fs.symbol)) =>
        /\ lastArg.returned = "false" /\ pc # "exited"
        /\ dllHandle = NULL /\ dllRuleFunction = NULL
        /\ ~initialized

\* C15: the engine holds at most one open library, the one dllHandle_ names;
\* the function pointer is set only while a handle is held; destroying an
\* engine that holds no library changes nothing
SingleLibraryOwnership ==
    [][/\ openHandles' <= 1
       /\ openHandles' = 1 <=> dllHandle' # NULL
       /\ dllRuleFunction' # NULL => dllHandle' # NULL
       /\ (lastOp' = "~RuleEngine" /\ dllHandle = NULL) =>
             (UNCHANGED engineVars /\ UNCHANGED ruleTrie)
      ]_vars

\* a library is held after an initialize in plugin mode
SingleLibraryOwnershipWitness ==
    /\ lastOp = "initialize" /\ lastArg.returned = "true"
    /\ dllHandle # NULL /\ dllRuleFunction # NULL /\ openHandles = 1

----------------------------------------------------------------------------
(* The engine re-initialized with one configuration after another (what    *)
(* Application::loadConfiguration does with its RuleEngine); lastArg also  *)
(* keeps the trie the engine held before the call.                         *)

Reinitialize(j, fs) ==
    LET done == initialize(Engine, loadFromFile(j), fs) IN
    /\ pc = "idle"
    /\ SetEngine(done[1])
    /\ pc' = IF done[2] = "exit" THEN "exited" ELSE "idle"
    /\ lastOp' = "initialize"
    /\ lastArg' = [file |-> j, fs |-> fs, returned |-> done[2], before |-> ruleTrie]
    /\ UNCHANGED gridVars
    /\ UNCHANGED <<defaultState, neighborhood, cellsToEvaluate, inserted,
                   changes, simulationPaused>>
    /\ UNCHANGED fileVars

NextTable ==
    \E j \in ApiFiles : \E fs \in FileSystemsFor(j) : Reinitialize(j, fs)

SpecTable == InitApi /\ [][NextTable]_vars

\* the rows of a table whose neighbor sequence is probe
RowsFor(rules, probe) ==
    {i \in DOMAIN rules : /\ Len(rules[i]) = Len(probe) + 1
                          /\ SubSeq(rules[i], 1, Len(probe)) = probe}

\* the result of the last row of the table for probe, if it has one
LastRowResult(rules, probe) ==
    IF RowsFor(rules, probe) = {} THEN NO_RULE_FOUND
    ELSE LET last == CHOOSE i \in RowsFor(rules, probe) :
                         \A o \in RowsFor(rules, probe) : o <= i
         IN rules[last][Len(rules[last])]

\* C33: inserting the same neighbor sequence twice makes lookup return the
\* result of the last insert, and after a successful re-initialize in table
\* mode lookups reflect only the rows of the new configuration: every lookup
\* yields the result of the last row of the new table for that sequence and
\* NO_RULE_FOUND when the new table has no such row.
RuleTableReplacement ==
    (/\ lastOp = "initialize" /\ lastArg.returned = "true"
     /\ lastArg.file.rule_mode = "trie") =>
        \A probe \in TrieProbes :
            findNextState(ruleTrie, probe) = LastRowResult(lastArg.file.rules, probe)

\* the new table names one sequence twice with different results, and the
\* table before it matched a sequence that the new one does not hold
RuleTableReplacementWitness ==
    /\ lastOp = "initialize" /\ lastArg.returned = "true"
    /\ lastArg.file.rule_mode = "trie"
    /\ \E i, k \in DOMAIN lastArg.file.rules :
           /\ i < k
           /\ lastArg.file.rules[i][1] = lastArg.file.rules[k][1]
           /\ lastArg.file.rules[i][2] # lastArg.file.rules[k][2]
           /\ findNextState(ruleTrie, <<lastArg.file.rules[k][1]>>) = lastArg.file.rules[k][2]
    /\ \E probe \in TrieProbes :
           /\ findNextState(lastArg.before, probe) # NO_RULE_FOUND
           /\ findNextState(ruleTrie, probe) = NO_RULE_FOUND

(* Conway's Life through the plugin: the application initialized with a    *)
(* configuration naming the update function of plugins/life.cpp, the eight *)
(* Moore offsets followed by the cell's own offset, and default state 0.   *)

Moore == <<<<-1, -1>>, <<0, -1>>, <<1, -1>>, <<-1, 0>>, <<1, 0>>,
           <<-1, 1>>, <<0, 1>>, <<1, 1>>>>
LifeFile ==
    [readable |-> TRUE, states |-> <<0, 1>>, default_state |-> 0,
     neighborhood |-> Moore \o <<<<0, 0>>>>, rule_mode |-> "dll", rules |-> <<>>,
     rule_dll_path |-> "plugins/life", rule_function_name |-> "update"]

\* the cells the brush paints and the region the patterns stay in
LifePoints == (0..2) \X (-1..1)
LifePlane == (-2..4) \X (-3..3)

\* Application::updateSimulation, the call of updateCells (line 289)
LifeUpdateSimulationApply ==
    /\ pc = "computed"
    /\ changes # <<>>
    /\ \A i \in DOMAIN changes : changes[i][1] \in LifePlane
    /\ \E upds \in PermSeqs(changes) : SetGrid(updateCells(Grid, defaultState, upds))
    /\ pc' = "idle"
    /\ changes' = <<>>
    /\ lastOp' = "updateSimulation"
    /\ lastArg' = "applied"
    /\ UNCHANGED <<defaultState, neighborhood, cellsToEvaluate, simulationPaused>>
    /\ UNCHANGED trieVars
    /\ UNCHANGED engineVars
    /\ UNCHANGED fileVars

InitLife ==
    LET config == loadFromFile(LifeFile)
        done == initialize(NewRuleEngine, config, [library |-> TRUE, symbol |-> TRUE])
    IN /\ defaultState = config.defaultState
       /\ activeCells = NewCellSpace.activeCells
       /\ minGridBounds = NewCellSpace.minGridBounds
       /\ maxGridBounds = NewCellSpace.maxGridBounds
       /\ boundsInitialized = NewCellSpace.boundsInitialized
       /\ neighborhood = <<>>
       /\ cellsToEvaluate = {}
       /\ lastOp = "initialize"
       /\ lastArg = "ok"
       /\ inserted = EmptyMap
       /\ initialized = done[1].initialized
       /\ currentRuleMode = done[1].currentRuleMode
       /\ neighborhoodDefinition = done[1].neighborhoodDefinition
       /\ ruleTrie = done[1].ruleTrie
       /\ dllHandle = done[1].dllHandle
       /\ dllRuleFunction = done[1].dllRuleFunction
       /\ openHandles = done[1].openHandles
       /\ pc = "idle"
       /\ changes = <<>>
       /\ simulationPaused = FALSE
       /\ FileInit

NextLife ==
    \/ \E c \in LifePoints, state \in {0, 1} : SetCellState(c, state)
    \/ UpdateSimulationStep
    \/ UpdateSimulationSkip
    \/ LifeUpdateSimulationApply

SpecLife == InitLife /\ [][NextLife]_vars

BlinkerAcross == [p \in {<<0, 0>>, <<1, 0>>, <<2, 0>>} |-> 1]
BlinkerUpright == [p \in {<<1, -1>>, <<1, 0>>, <<1, 1>>} |-> 1]

\* C16: one step and the application of its delta turn a three-cell blinker
\* into the perpendicular three-cell line through the same centre, every
\* other cell default
LifeBlinker ==
    [][(pc = "computed" /\ pc' = "idle") =>
          /\ activeCells = BlinkerAcross => activeCells' = BlinkerUpright
          /\ activeCells = BlinkerUpright => activeCells' = BlinkerAcross
      ]_vars

\* the delta of a blinker has been applied
LifeBlinkerWitness ==
    /\ lastOp = "updateSimulation" /\ lastArg = "applied"
    /\ activeCells = BlinkerUpright
    /\ minGridBounds = <<1, -1>> /\ maxGridBounds = <<1, 1>>


(***************************************************************************)
(* HuffmanCoding (src/src/file_io/huffman_coding.cpp).  A byte sequence is *)
(* a sequence over 0..255, a bit string a sequence over {0, 1}.  A node of *)
(* the tree carries its children in a sequence: empty for a leaf, <<left,  *)
(* right>> for an internal node (the code never builds a node with one     *)
(* child).  A tree pointer is a sequence of at most one root: <<>> is      *)
(* nullptr.                                                                *)
(***************************************************************************)
MaxData == 3
HuffBytes == {0, 65, 255}
HeapOrders == {"oldest", "newest"}

HuffmanNode(data, frequency) ==
    [data |-> data, frequency |-> frequency, children |-> <<>>]

IsLeaf(node) == node.children = <<>>

\* the keys of a std::map in iteration order
RECURSIVE mapOrder(_)
mapOrder(keys) ==
    IF keys = {} THEN <<>>
    ELSE LET least == CHOOSE k \in keys : \A o \in keys : k <= o
         IN <<least>> \o mapOrder(keys \ {least})

buildFrequencyTable(data) ==
    [b \in Range(data) |-> Cardinality({i \in DOMAIN data : data[i] = b})]

\* CompareNodes orders by frequency alone; among equal frequencies the node
\* that std::priority_queue yields is fixed by the heap, here by `order'
pqTop(pq, order) ==
    CHOOSE i \in DOMAIN pq : \A o \in DOMAIN pq :
        \/ pq[i].frequency < pq[o].frequency
        \/ /\ pq[i].frequency = pq[o].frequency
           /\ IF order = "oldest" THEN i <= o ELSE i >= o

pqPop(pq, i) == [k \in 1..(Len(pq) - 1) |-> IF k < i THEN pq[k] ELSE pq[k + 1]]

\* the variant whose internal node carries its left child's frequency
RECURSIVE buildLoopLeftFrequency(_, _)
buildLoopLeftFrequency(pq, order) ==
    IF Len(pq) <= 1 THEN pq
    ELSE LET l == pqTop(pq, order)
             left == pq[l]
             pq1 == pqPop(pq, l)
             r == pqTop(pq1, order)
             right == pq1[r]
             pq2 == pqPop(pq1, r)
             internalNode == [data |-> 0,
                              frequency |-> left.frequency,
                              children |-> <<left, right>>]
         IN buildLoopLeftFrequency(Append(pq2, internalNode), order)

RECURSIVE buildLoop(_, _)
buildLoop(pq, order) ==
    IF Len(pq) <= 1 THEN pq
    ELSE LET l == pqTop(pq, order)
             left == pq[l]
             pq1 == pqPop(pq, l)
             r == pqTop(pq1, order)
             right == pq1[r]
             pq2 == pqPop(pq1, r)
             internalNode == [data |-> 0,
                              frequency |-> left.frequency + right.frequency,
                              children |-> <<left, right>>]
         IN buildLoop(Append(pq2, internalNode), order)

buildHuffmanTree(freqTable, order) ==
    LET keys == mapOrder(DOMAIN freqTable)
        pq == [k \in DOMAIN keys |-> HuffmanNode(keys[k], freqTable[keys[k]])]
    IN IF Len(pq) = 0 THEN <<>>
       ELSE IF Len(pq) = 1
       THEN LET singleNode == pq[1]
            IN <<[data |-> 0,
                  frequency |-> singleNode.frequency,
                  children |-> <<singleNode, HuffmanNode(singleNode.data, 0)>>]>>
       ELSE buildLoop(pq, order)

\* the variant that extends the code on the way to the right child only
RECURSIVE generateCodesRightOnly(_, _, _)
generateCodesRightOnly(root, currentCode, huffmanCodes) ==
    IF root = <<>> THEN huffmanCodes
    ELSE LET node == root[1]
         IN IF IsLeaf(node)
            THEN MapPut(huffmanCodes, node.data, currentCode)
            ELSE generateCodesRightOnly(<<node.children[2]>>, Append(currentCode, 1),
                     generateCodesRightOnly(<<node.children[1]>>, currentCode,
                                            huffmanCodes))

RECURSIVE generateCodes(_, _, _)
generateCodes(root, currentCode, huffmanCodes) ==
    IF root = <<>> THEN huffmanCodes
    ELSE LET node == root[1]
         IN IF IsLeaf(node)
            THEN IF currentCode = <<>> /\ DOMAIN huffmanCodes = {}
                                       /\ node.frequency > 0
                 THEN MapPut(huffmanCodes, node.data, <<0>>)
                 ELSE MapPut(huffmanCodes, node.data, currentCode)
            ELSE generateCodes(<<node.children[2]>>, Append(currentCode, 1),
                     generateCodes(<<node.children[1]>>, Append(currentCode, 0),
                                   huffmanCodes))

\* (value >> (i * 8)) & 0xFF; every size written here is below 2^31
leByte(value, i) == IF i >= 4 THEN 0 ELSE (value \div (256 ^ i)) % 256

leBytes(value, width) == [i \in 1..width |-> leByte(value, i - 1)]

\* the value assembled from `width' bytes after index `at', low byte first
RECURSIVE readLE(_, _, _)
readLE(data, at, width) ==
    IF width = 0 THEN 0
    ELSE data[at + 1] + 256 * readLE(data, at + 1, width - 1)

\* the variant that fills each byte from its lowest bit upward
packBitsLowFirst(bits) ==
    [k \in 1..(Len(bits) \div 8) |->
        LET bit(j) == bits[8 * (k - 1) + j + 1]
        IN bit(7) * 128 + bit(6) * 64 + bit(5) * 32 + bit(4) * 16
           + bit(3) * 8 + bit(2) * 4 + bit(1) * 2 + bit(0)]

\* byte |= (1 << (7 - j)) for every '1' at position j of the group of 8
packBits(bits) ==
    [k \in 1..(Len(bits) \div 8) |->
        LET bit(j) == bits[8 * (k - 1) + j + 1]
        IN bit(0) * 128 + bit(1) * 64 + bit(2) * 32 + bit(3) * 16
           + bit(4) * 8 + bit(5) * 4 + bit(6) * 2 + bit(7)]

\* the bits of the bytes after index `at', most significant bit first
unpackBits(data, at) ==
    [k \in 1..(8 * (Len(data) - at)) |->
        (data[at + 1 + ((k - 1) \div 8)] \div (2 ^ (7 - ((k - 1) % 8)))) % 2]

RECURSIVE storeFrequencyTable(_, _, _)
storeFrequencyTable(freqTable, keys, i) ==
    IF i > Len(keys) THEN <<>>
    ELSE <<keys[i]>> \o leBytes(freqTable[keys[i]], 4)
         \o storeFrequencyTable(freqTable, keys, i + 1)

RECURSIVE encodeData(_, _, _)
encodeData(data, huffmanCodes, i) ==
    IF i > Len(data) THEN <<>>
    ELSE huffmanCodes[data[i]] \o encodeData(data, huffmanCodes, i + 1)

compressNonEmpty(data, order) ==
    LET freqTable == buildFrequencyTable(data)
        treeRoot == buildHuffmanTree(freqTable, order)
        generated == generateCodes(treeRoot, <<>>, EmptyMap)
        huffmanCodes ==
            IF Cardinality(DOMAIN freqTable) = 1
            THEN LET byte == CHOOSE b \in DOMAIN freqTable : TRUE
                 IN IF byte \notin DOMAIN generated \/ generated[byte] = <<>>
                    THEN MapPut(generated, byte, <<0>>)
                    ELSE generated
            ELSE generated
        originalSize == Len(data)
        freqTableSize == Cardinality(DOMAIN freqTable)
        encodedString == encodeData(data, huffmanCodes, 1)
        paddedBitsCount ==
            IF encodedString = <<>> THEN 0
            ELSE (8 - (Len(encodedString) % 8)) % 8
        padded == encodedString \o [i \in 1..paddedBitsCount |-> 0]
    IN IF treeRoot = <<>> THEN <<>>
       ELSE IF \E i \in DOMAIN data : data[i] \notin DOMAIN huffmanCodes THEN <<>>
       ELSE leBytes(originalSize, 8)
            \o leBytes(freqTableSize, 4)
            \o storeFrequencyTable(freqTable, mapOrder(DOMAIN freqTable), 1)
            \o <<paddedBitsCount>>
            \o packBits(padded)

\* the variant that writes an empty table and a padding byte for empty data
compressEmptyWithTable(data, order) ==
    IF data = <<>> THEN leBytes(0, 8) \o leBytes(0, 4) \o <<0>>
    ELSE compressNonEmpty(data, order)

compress(data, order) ==
    IF data = <<>> THEN leBytes(0, 8)
    ELSE compressNonEmpty(data, order)

\* the table entries read from index `at' on: <<read in full, table, index>>
RECURSIVE readFrequencyTable(_, _, _, _)
readFrequencyTable(data, at, entries, freqTable) ==
    IF entries = 0 THEN <<TRUE, freqTable, at>>
    ELSE IF at + 1 + 4 > Len(data) THEN <<FALSE, freqTable, at>>
    ELSE readFrequencyTable(data, at + 5, entries - 1,
             MapPut(freqTable, data[at + 1], readLE(data, at + 1, 4)))

\* the walk from currentNode down to a leaf: <<"leaf", the leaf, next bit>>,
\* <<"end", ...>> when the bits run out on the way, <<"null", ...>> when the
\* path leaves the tree
RECURSIVE walkToLeaf(_, _, _)
walkToLeaf(currentNode, bitString, i) ==
    IF i > Len(bitString) THEN <<"end", currentNode, i>>
    ELSE IF IsLeaf(currentNode) THEN <<"null", currentNode, i>>
    ELSE LET next == currentNode.children[bitString[i] + 1]
         IN IF IsLeaf(next) THEN <<"leaf", next, i + 1>>
            ELSE walkToLeaf(next, bitString, i + 1)

\* the walk over the bit string: <<no null node met, bytes emitted>>
RECURSIVE decodeBitString(_, _, _, _, _, _)
decodeBitString(treeRoot, currentNode, bitString, i, out, originalSize) ==
    LET walk == walkToLeaf(currentNode, bitString, i)
    IN IF walk[1] = "end" THEN <<TRUE, out>>
       ELSE IF walk[1] = "null" THEN <<FALSE, out>>
       ELSE IF Len(out) + 1 = originalSize
            THEN <<TRUE, Append(out, walk[2].data)>>
            ELSE decodeBitString(treeRoot, treeRoot, bitString, walk[3],
                                 Append(out, walk[2].data), originalSize)

\* the variant that returns whatever was decoded
checkDecodedSizeLenient(decompressedOut, originalSize) == decompressedOut

checkDecodedSize(decompressedOut, originalSize) ==
    IF Len(decompressedOut) # originalSize THEN <<>> ELSE decompressedOut

decompress(data, order) ==
    IF Len(data) < 8 + 4 + 1 THEN <<>>
    ELSE LET originalSize == readLE(data, 0, 8)
             freqTableNumEntries == readLE(data, 8, 4)
             table == readFrequencyTable(data, 12, freqTableNumEntries, EmptyMap)
             freqTable == table[2]
             treeRoot == buildHuffmanTree(freqTable, order)
             paddedBitsCount == data[table[3] + 1]
             allBits == unpackBits(data, table[3] + 1)
             bitString ==
                 IF allBits # <<>> /\ paddedBitsCount > 0 /\ paddedBitsCount < 8
                 THEN SubSeq(allBits, 1, Len(allBits) - paddedBitsCount)
                 ELSE allBits
             root == treeRoot[1]
             singleChar == root.children[1].data
             decoded == decodeBitString(root, root, bitString, 1, <<>>,
                                        originalSize)
         IN IF originalSize = 0 THEN <<>>
            ELSE IF ~table[1] THEN <<>>
            ELSE IF DOMAIN freqTable = {} THEN <<>>
            ELSE IF treeRoot = <<>> THEN <<>>
            ELSE IF table[3] + 1 > Len(data) THEN <<>>
            ELSE IF Len(allBits) < paddedBitsCount THEN <<>>
            ELSE IF Cardinality(DOMAIN freqTable) = 1
            THEN checkDecodedSize([i \in 1..originalSize |-> singleChar],
                                  originalSize)
            ELSE IF ~decoded[1] THEN <<>>
            ELSE checkDecodedSize(decoded[2], originalSize)

(***************************************************************************)
(* The codec driven on bounded inputs: a byte sequence is compressed; the  *)
(* stream is decompressed as it is, or after it was cut short or had one   *)
(* byte overwritten (a snapshot file damaged between save and load).  The  *)
(* upper six bytes of the size field are left alone, so that every size    *)
(* read back stays small.                                                  *)
(***************************************************************************)
HuffInputs == UNION {[1..n -> HuffBytes] : n \in 0..MaxData}
DamageBytes == {0, 1, 9}
DamagePositions(data) == {i \in DOMAIN data : i <= 2 \/ i > 8}

HuffUnused ==
    /\ UNCHANGED gridVars
    /\ UNCHANGED <<defaultState, neighborhood, cellsToEvaluate>>
    /\ UNCHANGED trieVars
    /\ UNCHANGED engineVars
    /\ UNCHANGED <<changes, simulationPaused>>
    /\ UNCHANGED snapVars
    /\ UNCHANGED loopVars
    /\ UNCHANGED timerVars

Compress(data) ==
    /\ pc = "idle"
    /\ dataToCompress' = data
    /\ compressedData' = compress(data, heapOrder)
    /\ pc' = "compressed"
    /\ lastOp' = "compress"
    /\ lastArg' = data
    /\ UNCHANGED <<decompressedOutput, heapOrder>>
    /\ HuffUnused

Truncate(n) ==
    /\ pc = "compressed"
    /\ n < Len(compressedData)
    /\ compressedData' = SubSeq(compressedData, 1, n)
    /\ pc' = "damaged"
    /\ lastOp' = "truncate"
    /\ lastArg' = n
    /\ UNCHANGED <<dataToCompress, decompressedOutput, heapOrder>>
    /\ HuffUnused

Overwrite(i, b) ==
    /\ pc = "compressed"
    /\ i \in DamagePositions(compressedData)
    /\ compressedData[i] # b
    /\ compressedData' = [compressedData EXCEPT ![i] = b]
    /\ pc' = "damaged"
    /\ lastOp' = "overwrite"
    /\ lastArg' = <<i, b>>
    /\ UNCHANGED <<dataToCompress, decompressedOutput, heapOrder>>
    /\ HuffUnused

Decompress ==
    /\ pc \in {"compressed", "damaged"}
    /\ decompressedOutput' = decompress(compressedData, heapOrder)
    /\ pc' = IF pc = "compressed" THEN "roundtrip" ELSE "decoded"
    /\ lastOp' = "decompress"
    /\ UNCHANGED <<dataToCompress, compressedData, heapOrder, lastArg>>
    /\ HuffUnused

InitHuffman ==
    /\ defaultState = 0
    /\ activeCells = NewCellSpace.activeCells
    /\ minGridBounds = NewCellSpace.minGridBounds
    /\ maxGridBounds = NewCellSpace.maxGridBounds
    /\ boundsInitialized = NewCellSpace.boundsInitialized
    /\ neighborhood = <<>>
    /\ cellsToEvaluate = {}
    /\ lastOp = "new"
    /\ lastArg = "new"
    /\ ruleTrie = NewRuleEngine.ruleTrie
    /\ inserted = EmptyMap
    /\ initialized = NewRuleEngine.initialized
    /\ currentRuleMode = NewRuleEngine.currentRuleMode
    /\ neighborhoodDefinition = NewRuleEngine.neighborhoodDefinition
    /\ dllHandle = NewRuleEngine.dllHandle
    /\ dllRuleFunction = NewRuleEngine.dllRuleFunction
    /\ openHandles = NewRuleEngine.openHandles
    /\ pc = "idle"
    /\ changes = <<>>
    /\ simulationPaused = TRUE
    /\ dataToCompress = <<>>
    /\ compressedData = <<>>
    /\ decompressedOutput = <<>>
    /\ heapOrder \in HeapOrders
    /\ serializedData = <<>>
    /\ savedCellSpace = NewCellSpace
    /\ snapshotResult = "none"
    /\ LoopInit
    /\ TimerInit

NextHuffman ==
    \/ \E data \in HuffInputs : Compress(data)
    \/ \E n \in 0..(8 + 4 + 5 * MaxData + 1 + MaxData) : Truncate(n)
    \/ \E i \in 1..(8 + 4 + 5 * MaxData + 1 + MaxData), b \in DamageBytes : Overwrite(i, b)
    \/ Decompress

SpecHuffman == InitHuffman /\ [][NextHuffman]_vars

\* C19: compress of the empty byte sequence returns exactly 8 bytes, all
\* zero: the little-endian originalSize 0 and nothing after it (no
\* frequency table, no padding byte, no bitstream).
EmptyCompress ==
    (pc = "compressed" /\ dataToCompress = <<>>)
        => compressedData = <<0, 0, 0, 0, 0, 0, 0, 0>>

EmptyCompressWitness ==
    /\ pc = "compressed"
    /\ lastOp = "compress"
    /\ dataToCompress = <<>>
    /\ Len(compressedData) = 8

\* the bytes of a stream after its header, table and padding byte
Bitstream(data) ==
    LET at == 8 + 4 + 5 * readLE(data, 8, 4) + 1
    IN SubSeq(data, at + 1, Len(data))

\* C20: when the input holds exactly one distinct byte value, the code
\* table built by compress gives that byte the 1-bit code 0, so the packed
\* bitstream is all zero bits (n code bits 0 followed by zero padding).
SingleByteCodeIsZero ==
    (pc = "compressed" /\ Cardinality(Range(dataToCompress)) = 1)
        => /\ LET freqTable == buildFrequencyTable(dataToCompress)
                  treeRoot == buildHuffmanTree(freqTable, heapOrder)
              IN generateCodes(treeRoot, <<>>, EmptyMap)[dataToCompress[1]] = <<0>>
           /\ \A k \in DOMAIN Bitstream(compressedData) :
                  Bitstream(compressedData)[k] = 0

\* C17: decompress(compress(x)) = x for every byte sequence x: the empty
\* sequence, a single byte, one value repeated, and two or more values.
HuffmanRoundTrip ==
    pc = "roundtrip" => decompressedOutput = dataToCompress

HuffmanRoundTripWitness ==
    /\ pc = "roundtrip"
    /\ Cardinality(Range(dataToCompress)) >= 2
    /\ Len(dataToCompress) = MaxData
    /\ decompressedOutput = dataToCompress

\* a stream too short for the sections it declares: the size header, the
\* table size, the declared table entries, the padding byte
TruncatedSection(data) ==
    \/ Len(data) < 8 + 4 + 1
    \/ /\ readLE(data, 0, 8) # 0
       /\ Len(data) < 8 + 4 + 5 * readLE(data, 8, 4) + 1

\* C18: for every input byte sequence decompress returns either the empty
\* sequence or exactly originalSize bytes (the value of the first 8 bytes),
\* never a partial result; a stream with a truncated section yields the
\* empty sequence.
DecodeNeverPartial ==
    pc \in {"roundtrip", "decoded"}
        => /\ \/ decompressedOutput = <<>>
              \/ /\ Len(compressedData) >= 8
                 /\ Len(decompressedOutput) = readLE(compressedData, 0, 8)
           /\ TruncatedSection(compressedData) => decompressedOutput = <<>>

\* a damaged stream with all its sections present and two or more table
\* entries, whose bits decode to a count other than originalSize
DecodeNeverPartialWitness ==
    /\ pc = "decoded"
    /\ lastOp = "decompress"
    /\ ~TruncatedSection(compressedData)
    /\ readLE(compressedData, 0, 8) > 0
    /\ readLE(compressedData, 8, 4) >= 2
    /\ Len(Bitstream(compressedData)) = 0
    /\ decompressedOutput = <<>>

\* the tree and the code table that compress builds for dataToCompress
compressTreeRoot == buildHuffmanTree(buildFrequencyTable(dataToCompress), heapOrder)

compressHuffmanCodes == generateCodes(compressTreeRoot, <<>>, EmptyMap)

\* every internal node has two children and the sum of their frequencies
RECURSIVE SumTree(_)
SumTree(node) ==
    \/ IsLeaf(node)
    \/ /\ Len(node.children) = 2
       /\ node.frequency = node.children[1].frequency + node.children[2].frequency
       /\ SumTree(node.children[1])
       /\ SumTree(node.children[2])

\* the byte values of the leaves, left to right
RECURSIVE Leaves(_)
Leaves(node) ==
    IF IsLeaf(node) THEN <<node.data>>
    ELSE Leaves(node.children[1]) \o Leaves(node.children[2])

\* C31: for every non-empty frequency table buildHuffmanTree ends with a
\* single root; every internal node has exactly two children and the sum
\* of their frequencies, so the root frequency is the input length; with
\* k >= 2 distinct bytes the tree has exactly k leaves, one per byte.
HuffmanTreeShape ==
    (pc = "compressed" /\ dataToCompress # <<>>)
        => /\ Len(compressTreeRoot) = 1
           /\ SumTree(compressTreeRoot[1])
           /\ compressTreeRoot[1].frequency = Len(dataToCompress)
           /\ Cardinality(Range(dataToCompress)) >= 2
                  => /\ Len(Leaves(compressTreeRoot[1])) = Cardinality(Range(dataToCompress))
                     /\ Range(Leaves(compressTreeRoot[1])) = Range(dataToCompress)

\* three distinct bytes: an internal node below the root
HuffmanTreeShapeWitness ==
    /\ pc = "compressed"
    /\ lastOp = "compress"
    /\ Cardinality(Range(dataToCompress)) = 3
    /\ Len(Leaves(compressTreeRoot[1])) = 3
    /\ \E i \in 1..2 : ~IsLeaf(compressTreeRoot[1].children[i])

IsPrefixOf(a, b) == Len(a) <= Len(b) /\ SubSeq(b, 1, Len(a)) = a

\* C32: for every input with two or more distinct byte values generateCodes
\* gives each distinct byte a non-empty bit string, and no byte's code is a
\* prefix of another byte's code.
CodeTablePrefixFree ==
    (pc = "compressed" /\ Cardinality(Range(dataToCompress)) >= 2)
        => /\ DOMAIN compressHuffmanCodes = Range(dataToCompress)
           /\ \A b \in DOMAIN compressHuffmanCodes : compressHuffmanCodes[b] # <<>>
           /\ \A b, o \in DOMAIN compressHuffmanCodes :
                  b # o => ~IsPrefixOf(compressHuffmanCodes[b], compressHuffmanCodes[o])

\* three distinct bytes: codes of length 1 and 2 side by side
CodeTablePrefixFreeWitness ==
    /\ pc = "compressed"
    /\ lastOp = "compress"
    /\ Cardinality(DOMAIN compressHuffmanCodes) = 3
    /\ \E b, o \in DOMAIN compressHuffmanCodes :
           Len(compressHuffmanCodes[b]) = 1 /\ Len(compressHuffmanCodes[o]) = 2

(***************************************************************************)
(* The grid mutation interface as a whole: the edits of SpecFrontier, the  *)
(* wholesale load used by snapshot restore (its arguments are whatever a   *)
(* snapshot file holds), and the two read accessors.                       *)
(***************************************************************************)

\* loadCells: the frontier is the influence-expansion of every loaded cell
frontierAfterLoad(cells, offsets) ==
    UNION {frontierPatch(p, offsets) : p \in DOMAIN cells}

FrontierLoadCells(cells, minB, maxB) ==
    /\ pc = "idle"
    /\ SetGrid(loadActiveCells(cells, minB, maxB))
    /\ cellsToEvaluate' = frontierAfterLoad(cells, neighborhood)
    /\ lastOp' = "loadCells"
    /\ lastArg' = <<cells, minB, maxB>>
    /\ UNCHANGED <<defaultState, neighborhood>>
    /\ UNCHANGED trieVars
    /\ UNCHANGED engineVars
    /\ UNCHANGED appVars
    /\ UNCHANGED fileVars

GetCellState(c) ==
    /\ pc = "idle"
    /\ lastOp' = "getCellState"
    /\ lastArg' = <<c, getCellState(activeCells, defaultState, c)>>
    /\ UNCHANGED gridVars
    /\ UNCHANGED <<defaultState, neighborhood, cellsToEvaluate>>
    /\ UNCHANGED trieVars
    /\ UNCHANGED engineVars
    /\ UNCHANGED appVars
    /\ UNCHANGED fileVars

GetNeighborStates(c) ==
    /\ pc = "idle"
    /\ lastOp' = "getNeighborStates"
    /\ lastArg' = <<c, getNeighborStates(activeCells, defaultState, c, neighborhood)>>
    /\ UNCHANGED gridVars
    /\ UNCHANGED <<defaultState, neighborhood, cellsToEvaluate>>
    /\ UNCHANGED trieVars
    /\ UNCHANGED engineVars
    /\ UNCHANGED appVars
    /\ UNCHANGED fileVars

NextGrid ==
    \/ \E c \in FrontierPoints, state \in States : FrontierSetCellState(c, state)
    \/ \E upds \in FrontierUpdateSeqs : FrontierUpdateCells(upds)
    \/ FrontierClear
    \/ \E cells \in LoadMaps, minB \in LoadMins :
          FrontierLoadCells(cells, minB, <<1, 1>>)
    \/ \E c \in ApiPoints : GetCellState(c)
    \/ \E c \in ApiPoints : GetNeighborStates(c)

InitGrid ==
    /\ defaultState \in DefaultStates
    /\ neighborhood = NSym
    /\ activeCells = NewCellSpace.activeCells
    /\ minGridBounds = NewCellSpace.minGridBounds
    /\ maxGridBounds = NewCellSpace.maxGridBounds
    /\ boundsInitialized = NewCellSpace.boundsInitialized
    /\ cellsToEvaluate = {}
    /\ lastOp = "new"
    /\ lastArg = "new"
    /\ InitRest

SpecGrid == InitGrid /\ [][NextGrid]_vars

\* the influence-expansion of a set of coordinates, written out
Expansion(ps) ==
    {q \in {PointAdd(p, PointAdd(a, b)) :
                p \in ps, a \in Range(neighborhood), b \in Range(neighborhood)} : TRUE}
    \cup ps

InvariantsSurviveRestore ==
    lastOp = "loadCells" =>
        /\ \A p \in DOMAIN activeCells : activeCells[p] # defaultState
        /\ DOMAIN activeCells # {} =>
              /\ minGridBounds = TightMin(DOMAIN activeCells)
              /\ maxGridBounds = TightMax(DOMAIN activeCells)

\* setCellState called for each pair of an update map, in the order given
RECURSIVE setEach(_, _, _, _)
setEach(cs, d, upds, i) ==
    IF i > Len(upds) THEN cs
    ELSE setEach(setCellState(cs, d, upds[i][1], upds[i][2]), d, upds, i + 1)

\* C27: for every grid state and every update map U, the cell map,
\* boundsValid, minBounds and maxBounds after applyChanges(U) are those
\* after setCellState(p, s) for each (p, s) of U, in any order.
ApplyChangesEqualsSetCellState ==
    [][lastOp' = "updateCells" =>
          \A order \in PermSeqs(lastArg') :
              setEach(Grid, defaultState, order, 1) = Grid'
      ]_vars

\* C28: setCellState(p, s) with s other than the prior state of p adds p
\* and every p + offset of the influence set to the frontier and removes
\* nothing from it; with s equal to the prior state it leaves the cell map,
\* the bounds and the frontier unchanged.
SetCellStateFrame ==
    [][lastOp' = "setCellState" =>
          LET p == lastArg'[1]
              s == lastArg'[2]
              prior == IF p \in DOMAIN activeCells THEN activeCells[p]
                       ELSE defaultState
          IN IF s # prior
             THEN /\ cellsToEvaluate \subseteq cellsToEvaluate'
                  /\ Expansion({p}) \subseteq cellsToEvaluate'
             ELSE UNCHANGED <<activeCells, minGridBounds, maxGridBounds,
                              boundsInitialized, cellsToEvaluate>>
      ]_vars

\* C29: getNeighborStates(p) returns neighborhood.size() states, the i-th
\* being the state at p + neighborhood[i] (the stored one, or the default
\* state for a coordinate not stored); getCellState returns the same for
\* one coordinate; neither changes the grid.
NeighborStatesInOrder ==
    [][/\ lastOp' = "getNeighborStates" =>
             /\ Len(lastArg'[2]) = Len(neighborhood)
             /\ \A i \in DOMAIN neighborhood :
                   LET q == <<lastArg'[1][1] + neighborhood[i][1],
                              lastArg'[1][2] + neighborhood[i][2]>>
                   IN lastArg'[2][i] = IF q \in DOMAIN activeCells
                                       THEN activeCells[q] ELSE defaultState
             /\ UNCHANGED <<activeCells, minGridBounds, maxGridBounds,
                            boundsInitialized, cellsToEvaluate, defaultState>>
       /\ lastOp' = "getCellState" =>
             /\ lastArg'[2] = IF lastArg'[1] \in DOMAIN activeCells
                              THEN activeCells[lastArg'[1]] ELSE defaultState
             /\ UNCHANGED <<activeCells, minGridBounds, maxGridBounds,
                            boundsInitialized, cellsToEvaluate, defaultState>>
      ]_vars

\* the two neighbors of the cell hold different states
NeighborStatesInOrderWitness ==
    /\ lastOp = "getNeighborStates"
    /\ Len(lastArg[2]) = 2
    /\ lastArg[2][1] # lastArg[2][2]
    /\ lastArg[2][2] # defaultState

\* C30: clear() leaves the cell map empty (every coordinate reads as the
\* default state), the frontier empty and the bounds invalid; no grid
\* operation changes defaultState.
ClearResets ==
    [][/\ lastOp' = "clear" =>
             /\ activeCells' = EmptyMap
             /\ \A p \in Points : getCellState(activeCells', defaultState', p) = defaultState
             /\ cellsToEvaluate' = {}
             /\ boundsInitialized' = FALSE
       /\ defaultState' = defaultState
      ]_vars

\* the grid after clear, with an earlier load having set it up
ClearResetsWitness ==
    /\ lastOp = "clear"
    /\ activeCells = EmptyMap
    /\ cellsToEvaluate = {}
    /\ ~boundsInitialized
    /\ defaultState = 1

(***************************************************************************)
(* SnapshotManager (src/xmake.lua:225-420).  An exception thrown by        *)
(* readInt32 is the first component FALSE of its result; the try block of  *)
(* deserializeCellSpace turns it into the result "false".                  *)
(***************************************************************************)

\* the variant that writes the high byte first
writeInt32BigEndian(value) ==
    <<(value \div 16777216) % 256, (value \div 65536) % 256,
      (value \div 256) % 256, value % 256>>

\* value & 0xFF, (value >> 8) & 0xFF, ... on a two's complement int32
writeInt32(value) ==
    <<value % 256, (value \div 256) % 256,
      (value \div 65536) % 256, (value \div 16777216) % 256>>

\* <<read, value, offset after the read>>
readInt32(buffer, offset) ==
    IF offset + 4 > Len(buffer) THEN <<FALSE, 0, offset>>
    ELSE <<TRUE,
           buffer[offset + 1] + 256 * buffer[offset + 2]
               + 65536 * buffer[offset + 3]
               + 16777216 * (IF buffer[offset + 4] >= 128
                             THEN buffer[offset + 4] - 256
                             ELSE buffer[offset + 4]),
           offset + 4>>

\* n successive readInt32 calls: <<all read, the values, offset>>
RECURSIVE readInts(_, _, _)
readInts(buffer, offset, n) ==
    IF n = 0 THEN <<TRUE, <<>>, offset>>
    ELSE LET first == readInt32(buffer, offset)
         IN IF ~first[1] THEN <<FALSE, <<>>, offset>>
            ELSE LET rest == readInts(buffer, first[3], n - 1)
                 IN <<rest[1], <<first[2]>> \o rest[2], rest[3]>>

\* the variant that counts the declared cells with a signed counter
numActiveCellsSigned(value) == IF value < 0 THEN 0 ELSE value

\* static_cast<std::uint32_t>: a negative int32 is a count of 2^31 or more,
\* here INT_MAX, more cells than any buffer holds
numActiveCells(value) == IF value < 0 THEN INT_MAX ELSE value

RECURSIVE writeCells(_, _, _)
writeCells(cells, order, i) ==
    IF i > Len(order) THEN <<>>
    ELSE writeInt32(order[i][1]) \o writeInt32(order[i][2])
         \o writeInt32(cells[order[i]]) \o writeCells(cells, order, i + 1)

\* order lists the keys of the unordered_map in its iteration order
serializeCellSpace(cs, order) ==
    LET boundsValid == cs.boundsInitialized
        minBounds == IF boundsValid THEN cs.minGridBounds ELSE <<0, 0>>
        maxBounds == IF boundsValid THEN cs.maxGridBounds ELSE <<0, 0>>
    IN writeInt32(IF boundsValid THEN minBounds[1] ELSE 0)
       \o writeInt32(IF boundsValid THEN minBounds[2] ELSE 0)
       \o writeInt32(IF boundsValid THEN maxBounds[1] ELSE 0)
       \o writeInt32(IF boundsValid THEN maxBounds[2] ELSE 0)
       \o writeInt32(Cardinality(DOMAIN cs.activeCells))
       \o writeCells(cs.activeCells, order, 1)

\* the variant that reads cell records for as long as the buffer holds one
RECURSIVE readCellsGreedy(_, _, _, _)
readCellsGreedy(data, offset, remaining, loadedCells) ==
    LET cell == readInts(data, offset, 3)
    IN IF ~cell[1] THEN <<remaining <= 0, loadedCells, offset>>
       ELSE readCellsGreedy(data, cell[3], remaining - 1,
                MapPut(loadedCells, <<cell[2][1], cell[2][2]>>, cell[2][3]))

\* the loop over the declared cells: <<all read, loadedCells, offset>>
RECURSIVE readCells(_, _, _, _)
readCells(data, offset, remaining, loadedCells) ==
    IF remaining = 0 THEN <<TRUE, loadedCells, offset>>
    ELSE LET cell == readInts(data, offset, 3)
         IN IF ~cell[1] THEN <<FALSE, loadedCells, offset>>
            ELSE readCells(data, cell[3], remaining - 1,
                     MapPut(loadedCells, <<cell[2][1], cell[2][2]>>, cell[2][3]))

\* the grid and frontier left behind and the value returned; reserve() on a
\* huge count either succeeds or throws, and a throw is caught like any other
deserializeCellSpace(data, cs, offsets) ==
    LET header == readInts(data, 0, 5)
        cells == readCells(data, header[3], numActiveCells(header[2][5]), EmptyMap)
        failed == [cellSpace |-> clear(clear(cs)), cellsToEvaluate |-> {},
                   returned |-> "false"]
    IN IF ~header[1] THEN failed
       ELSE IF ~cells[1] THEN failed
       ELSE [cellSpace |-> loadActiveCells(cells[2],
                               <<header[2][1], header[2][2]>>,
                               <<header[2][3], header[2][4]>>),
             cellsToEvaluate |-> frontierAfterLoad(cells[2], offsets),
             returned |-> "true"]

\* fileOpens: whether the file can be opened and read
loadState(fileOpens, compressed_data, order, cs, frontier, offsets) ==
    LET serialized_data == decompress(compressed_data, order)
        untouched == [cellSpace |-> cs, cellsToEvaluate |-> frontier,
                      returned |-> "false"]
    IN IF ~fileOpens THEN untouched
       ELSE IF /\ serialized_data = <<>>
               /\ compressed_data # <<>>
               /\ ~(Len(compressed_data) = 8 /\ readLE(compressed_data, 0, 8) = 0)
       THEN untouched
       ELSE deserializeCellSpace(serialized_data, cs, offsets)

(***************************************************************************)
(* Snapshots driven on a small grid with a negative coordinate and a       *)
(* negative state.  A serialized buffer is deserialized as it is, or after *)
(* it was cut short, got trailing bytes or a changed cell count.  A saved  *)
(* file is loaded as it is, or cut short, or holding a cut payload.        *)
(***************************************************************************)
SnapPoints == {<<-65537, 0>>, <<1, 258>>}
SnapStates == {-1, 0, 2}
TrailingBytes == {<<7>>, writeInt32(5) \o writeInt32(5) \o writeInt32(2)}
FileCuts(data) == {0, 3, 13, Len(data) - 1}
PayloadCuts(data) == {3, 20, Len(data) - 1}

SnapUnused ==
    /\ UNCHANGED <<defaultState, neighborhood>>
    /\ UNCHANGED trieVars
    /\ UNCHANGED engineVars
    /\ UNCHANGED <<changes, heapOrder>>
    /\ UNCHANGED loopVars
    /\ UNCHANGED timerVars

SerializeCellSpace(order) ==
    /\ pc = "idle"
    /\ serializedData = <<>>
    /\ serializedData' = serializeCellSpace(Grid, order)
    /\ savedCellSpace' = Grid
    /\ lastOp' = "serializeCellSpace"
    /\ lastArg' = order
    /\ UNCHANGED gridVars
    /\ UNCHANGED <<cellsToEvaluate, pc, simulationPaused, snapshotResult>>
    /\ UNCHANGED <<dataToCompress, compressedData, decompressedOutput>>
    /\ SnapUnused

\* the buffer reaches deserializeCellSpace changed
DamageSnapshot(data) ==
    /\ pc = "idle"
    /\ serializedData # <<>>
    /\ snapshotResult = "none"
    /\ data # serializedData
    /\ serializedData' = data
    /\ pc' = "damaged"
    /\ lastOp' = "damage"
    /\ lastArg' = Len(data)
    /\ UNCHANGED gridVars
    /\ UNCHANGED <<cellsToEvaluate, simulationPaused, snapshotResult, savedCellSpace>>
    /\ UNCHANGED <<dataToCompress, compressedData, decompressedOutput>>
    /\ SnapUnused

TruncateSnapshot(n) ==
    /\ n < Len(serializedData)
    /\ DamageSnapshot(SubSeq(serializedData, 1, n))

AppendTrailing(extra) == DamageSnapshot(serializedData \o extra)

\* the declared cell count with its high byte set, or raised by one
DeclareCount(high) ==
    /\ Len(serializedData) >= 20
    /\ DamageSnapshot(IF high
                      THEN [serializedData EXCEPT ![20] = 255]
                      ELSE [serializedData EXCEPT ![17] = @ + 1])

DeserializeCellSpace ==
    LET result == deserializeCellSpace(serializedData, Grid, neighborhood) IN
    /\ \/ pc = "damaged"
       \/ pc = "idle" /\ serializedData # <<>>
    /\ SetGrid(result.cellSpace)
    /\ cellsToEvaluate' = result.cellsToEvaluate
    /\ snapshotResult' = result.returned
    /\ pc' = IF pc = "idle" THEN "idle" ELSE "deserialized"
    /\ lastOp' = "deserializeCellSpace"
    /\ lastArg' = [cellSpace |-> Grid, cellsToEvaluate |-> cellsToEvaluate]
    /\ UNCHANGED <<simulationPaused, serializedData, savedCellSpace>>
    /\ UNCHANGED <<dataToCompress, compressedData, decompressedOutput>>
    /\ SnapUnused

\* Application::saveSnapshot; a file that cannot be written is fatal
SaveSnapshot(order, fileOpens) ==
    /\ pc = "idle"
    /\ serializedData = <<>>
    /\ dataToCompress' = serializeCellSpace(Grid, order)
    /\ compressedData' = IF fileOpens THEN compress(dataToCompress', heapOrder)
                         ELSE compressedData
    /\ savedCellSpace' = Grid
    /\ pc' = IF fileOpens THEN "saved" ELSE "exited"
    /\ lastOp' = "saveSnapshot"
    /\ lastArg' = order
    /\ UNCHANGED gridVars
    /\ UNCHANGED <<cellsToEvaluate, simulationPaused, snapshotResult>>
    /\ UNCHANGED <<serializedData, decompressedOutput>>
    /\ SnapUnused

\* the file reaches loadState changed
DamageFile(data) ==
    /\ pc = "saved"
    /\ data # compressedData
    /\ compressedData' = data
    /\ pc' = "file-damaged"
    /\ lastOp' = "damage"
    /\ lastArg' = Len(data)
    /\ UNCHANGED gridVars
    /\ UNCHANGED <<cellsToEvaluate, simulationPaused, snapshotResult, savedCellSpace>>
    /\ UNCHANGED <<dataToCompress, serializedData, decompressedOutput>>
    /\ SnapUnused

TruncateFile(n) ==
    /\ n \in 0..(Len(compressedData) - 1)
    /\ DamageFile(SubSeq(compressedData, 1, n))

\* a file that holds the first n bytes of the payload, compressed
ReplacePayload(n) ==
    /\ n \in 0..(Len(dataToCompress) - 1)
    /\ DamageFile(compress(SubSeq(dataToCompress, 1, n), heapOrder))

\* Application::loadSnapshot; a failed load is logged as fatal
LoadSnapshot(fileOpens) ==
    LET result == loadState(fileOpens, compressedData, heapOrder, Grid,
                            cellsToEvaluate, neighborhood) IN
    /\ pc \in {"saved", "file-damaged"}
    /\ decompressedOutput' = IF fileOpens THEN decompress(compressedData, heapOrder)
                             ELSE decompressedOutput
    /\ SetGrid(result.cellSpace)
    /\ cellsToEvaluate' = result.cellsToEvaluate
    /\ snapshotResult' = result.returned
    /\ simulationPaused' = (IF result.returned = "true" THEN simulationPaused ELSE TRUE)
    /\ pc' = IF result.returned = "true" THEN "loaded" ELSE "exited"
    /\ lastOp' = "loadSnapshot"
    /\ lastArg' = [cellSpace |-> Grid, cellsToEvaluate |-> cellsToEvaluate]
    /\ UNCHANGED <<dataToCompress, compressedData, serializedData, savedCellSpace>>
    /\ SnapUnused

InitSnapshot ==
    /\ defaultState = 0
    /\ neighborhood = NRight
    /\ activeCells = NewCellSpace.activeCells
    /\ minGridBounds = NewCellSpace.minGridBounds
    /\ maxGridBounds = NewCellSpace.maxGridBounds
    /\ boundsInitialized = NewCellSpace.boundsInitialized
    /\ cellsToEvaluate = {}
    /\ lastOp = "new"
    /\ lastArg = "new"
    /\ InitRest

NextSnapshot ==
    \/ \E c \in SnapPoints, state \in SnapStates : FrontierSetCellState(c, state)
    \/ \E order \in PermSeqs(setOrder(DOMAIN activeCells)) : SerializeCellSpace(order)
    \/ \E n \in 0..(20 + 12 * Cardinality(SnapPoints)) : TruncateSnapshot(n)
    \/ \E extra \in TrailingBytes : AppendTrailing(extra)
    \/ \E high \in BOOLEAN : DeclareCount(high)
    \/ DeserializeCellSpace
    \/ \E order \in PermSeqs(setOrder(DOMAIN activeCells)), fileOpens \in BOOLEAN :
          SaveSnapshot(order, fileOpens)
    \/ \E n \in FileCuts(compressedData) : TruncateFile(n)
    \/ \E n \in PayloadCuts(dataToCompress) : ReplacePayload(n)
    \/ \E fileOpens \in BOOLEAN : LoadSnapshot(fileOpens)

SpecSnapshot == InitSnapshot /\ [][NextSnapshot]_vars

\* C21: for a grid with at least one active cell (and so valid bounds),
\* deserialize(serialize(grid)) succeeds and rebuilds the identical cell map
\* (negative coordinates and states included) and identical bounds.
SnapshotRoundTrip ==
    (/\ lastOp = "deserializeCellSpace"
     /\ pc = "idle"
     /\ DOMAIN savedCellSpace.activeCells # {}
     /\ savedCellSpace.boundsInitialized)
        => /\ snapshotResult = "true"
           /\ activeCells = savedCellSpace.activeCells
           /\ boundsInitialized
           /\ minGridBounds = savedCellSpace.minGridBounds
           /\ maxGridBounds = savedCellSpace.maxGridBounds

\* a two-cell snapshot with a negative coordinate and a negative state,
\* restored into a grid that had been edited since
SnapshotRoundTripWitness ==
    /\ lastOp = "deserializeCellSpace"
    /\ pc = "idle"
    /\ snapshotResult = "true"
    /\ Cardinality(DOMAIN activeCells) = 2
    /\ \E p \in DOMAIN activeCells : p[1] < 0 /\ activeCells[p] < 0
    /\ lastArg.cellSpace.activeCells # activeCells
    /\ activeCells = savedCellSpace.activeCells

\* C22: when a load fails at any stage (reading the file, decompression,
\* deserialization), the live grid holds exactly the cells, bounds and
\* frontier it held before the call.
FailedLoadLeavesGrid ==
    (lastOp = "loadSnapshot" /\ snapshotResult = "false")
        => /\ Grid = lastArg.cellSpace
           /\ cellsToEvaluate = lastArg.cellsToEvaluate

\* the cell count a buffer declares, when it has a full header
DeclaredCount(data) ==
    data[17] + 256 * data[18] + 65536 * data[19]
        + 16777216 * (IF data[20] >= 128 THEN data[20] - 256 ELSE data[20])

ShorterThanDeclared(data) ==
    \/ Len(data) < 20
    \/ DeclaredCount(data) < 0
    \/ Len(data) < 20 + 12 * DeclaredCount(data)

\* C23: for every buffer shorter than its declared layout (fewer than 20
\* header bytes, fewer than 12 bytes per declared cell, a declared count
\* that is negative as int32) deserialize returns failure; nothing
\* propagates to the caller.
MalformedSnapshotFails ==
    (lastOp = "deserializeCellSpace" /\ ShorterThanDeclared(serializedData))
        => /\ snapshotResult = "false"
           /\ pc = "deserialized"

\* the 3-byte buffer
MalformedSnapshotFailsWitness ==
    /\ lastOp = "deserializeCellSpace"
    /\ Len(serializedData) = 3
    /\ snapshotResult = "false"
    /\ lastArg.cellSpace.activeCells # EmptyMap

\* C24: a buffer with a complete header and all declared cells followed
\* by extra bytes deserializes successfully, to the cells and bounds of
\* the buffer without the extra bytes.
TrailingBytesTolerated ==
    (/\ lastOp = "deserializeCellSpace"
     /\ ~ShorterThanDeclared(serializedData)
     /\ Len(serializedData) > 20 + 12 * DeclaredCount(serializedData))
        => /\ snapshotResult = "true"
           /\ Grid = deserializeCellSpace(
                         SubSeq(serializedData, 1,
                                20 + 12 * DeclaredCount(serializedData)),
                         lastArg.cellSpace, neighborhood).cellSpace

\* a whole 12-byte record trails the declared cells
TrailingBytesToleratedWitness ==
    /\ lastOp = "deserializeCellSpace"
    /\ ~ShorterThanDeclared(serializedData)
    /\ Len(serializedData) = 20 + 12 * DeclaredCount(serializedData) + 12
    /\ DeclaredCount(serializedData) >= 1
    /\ snapshotResult = "true"

(***************************************************************************)
(* Application::run (src/src/core/application.cpp): one iteration adds the *)
(* elapsed time to simulationLag_, lets processInput run the commands of   *)
(* the user, runs the update loop and renders.  pc is the position in the  *)
(* iteration: "run" at the loop test, "input" inside processInput,         *)
(* "update" at the update loop, "render" before renderScene.  Times are in *)
(* milliseconds, speeds in tenths of an update per second.                 *)
(***************************************************************************)
MaxLag == 32
ElapsedTimes == {0, 16}
Speeds == {0, 2500}
LoopPoints == {<<0, 0>>, <<1, 0>>}

\* the pause fields of the Application
App == [simulationPaused |-> simulationPaused, simulationLag |-> simulationLag]

SetApp(app) ==
    /\ simulationPaused' = app.simulationPaused
    /\ simulationLag' = app.simulationLag

\* Application::togglePause
togglePause(app) ==
    [simulationPaused |-> ~app.simulationPaused, simulationLag |-> 0]

\* Application::pauseSimulation
pauseSimulation(app) ==
    IF ~app.simulationPaused
    THEN [simulationPaused |-> TRUE, simulationLag |-> 0]
    ELSE app

\* the variant that resumes with the lag accumulated during the pause
resumeSimulationKeepsLag(app) ==
    IF app.simulationPaused
    THEN [simulationPaused |-> FALSE, simulationLag |-> app.simulationLag]
    ELSE app

\* Application::resumeSimulation
resumeSimulation(app) ==
    IF app.simulationPaused
    THEN [simulationPaused |-> FALSE, simulationLag |-> 0]
    ELSE app

\* the tail of loadSnapshot, clearSimulation and loadConfiguration
resumeIfWasRunning(app, wasPaused, running) ==
    IF ~wasPaused /\ running THEN resumeSimulation(app) ELSE app

\* Application::setSimulationSpeed: the speed is clamped to [0.1, 200] and
\* timePerUpdate_ is 1000 / speed cut to an integer, at least 1
setSimulationSpeed(updatesPerSecond) ==
    LET speed == IF updatesPerSecond <= 0 THEN 1
                 ELSE IF updatesPerSecond > 2000 THEN 2000
                 ELSE updatesPerSecond
        perUpdate == 10000 \div speed
    IN IF perUpdate = 0 THEN 1 ELSE perUpdate

\* the configuration the application was started with: a cell whose right
\* neighbor is in state 1 goes to state 0
LoopFile ==
    [readable |-> TRUE, states |-> ConfigStates, default_state |-> 0,
     neighborhood |-> NRight, rule_mode |-> "trie", rules |-> << <<1, 0>> >>,
     rule_dll_path |-> "", rule_function_name |-> ""]

\* the files a "load configuration" can name: the same rules, no rules, and
\* a file that cannot be read
LoopFiles ==
    {LoopFile, [LoopFile EXCEPT !.rules = <<>>], [LoopFile EXCEPT !.readable = FALSE]}

\* the snapshot files a "load" can name: a saved grid and an empty file
LoopSnapshots ==
    {compress(serializeCellSpace(setCellState(NewCellSpace, 0, <<1, 0>>, 1),
                                 << <<1, 0>> >>), "oldest"),
     <<>>}

LoopUnused ==
    /\ UNCHANGED <<neighborhood, inserted, changes>>
    /\ UNCHANGED <<dataToCompress, compressedData, decompressedOutput, heapOrder>>
    /\ UNCHANGED <<serializedData, savedCellSpace>>
    /\ UNCHANGED timerVars

\* the loop test of run fails after quit
RunReturn ==
    /\ pc = "run"
    /\ ~isRunning
    /\ pc' = "returned"
    /\ lastOp' = "run"
    /\ lastArg' = "returned"
    /\ UNCHANGED gridVars
    /\ UNCHANGED <<defaultState, cellsToEvaluate, ruleTrie, simulationPaused,
                   snapshotResult>>
    /\ UNCHANGED engineVars
    /\ UNCHANGED loopVars
    /\ LoopUnused

\* run, lines 259-262
RunElapsed(elapsedTime) ==
    /\ pc = "run"
    /\ isRunning
    /\ simulationLag + elapsedTime <= MaxLag
    /\ simulationLag' = simulationLag + elapsedTime
    /\ stepsExecuted' = 0
    /\ lagAtUpdate' = 0
    /\ pc' = "input"
    /\ lastOp' = "run"
    /\ lastArg' = elapsedTime
    /\ UNCHANGED gridVars
    /\ UNCHANGED <<defaultState, cellsToEvaluate, ruleTrie, simulationPaused,
                   snapshotResult, isRunning, timePerUpdate>>
    /\ UNCHANGED engineVars
    /\ LoopUnused

\* a command that touches the pause fields only
InputPause(name, app) ==
    /\ pc = "input"
    /\ SetApp(app)
    /\ lastOp' = name
    /\ lastArg' = [wasPaused |-> simulationPaused]
    /\ UNCHANGED gridVars
    /\ UNCHANGED <<defaultState, cellsToEvaluate, ruleTrie, pc, snapshotResult,
                   isRunning, timePerUpdate, stepsExecuted, lagAtUpdate>>
    /\ UNCHANGED engineVars
    /\ LoopUnused

InputTogglePause == InputPause("togglePause", togglePause(App))

InputPauseSimulation == InputPause("pauseSimulation", pauseSimulation(App))

InputResumeSimulation == InputPause("resumeSimulation", resumeSimulation(App))

InputSetSimulationSpeed(updatesPerSecond) ==
    /\ pc = "input"
    /\ timePerUpdate' = setSimulationSpeed(updatesPerSecond)
    /\ lastOp' = "setSimulationSpeed"
    /\ lastArg' = updatesPerSecond
    /\ UNCHANGED gridVars
    /\ UNCHANGED <<defaultState, cellsToEvaluate, ruleTrie, pc, snapshotResult,
                   simulationPaused, isRunning, simulationLag, stepsExecuted,
                   lagAtUpdate>>
    /\ UNCHANGED engineVars
    /\ LoopUnused

\* Application::quit
InputQuit ==
    /\ pc = "input"
    /\ isRunning' = FALSE
    /\ lastOp' = "quit"
    /\ lastArg' = "quit"
    /\ UNCHANGED gridVars
    /\ UNCHANGED <<defaultState, cellsToEvaluate, ruleTrie, pc, snapshotResult,
                   simulationPaused, timePerUpdate, simulationLag, stepsExecuted,
                   lagAtUpdate>>
    /\ UNCHANGED engineVars
    /\ LoopUnused

\* the brush paints one cell
InputPaint(c, state) ==
    /\ pc = "input"
    /\ SetGrid(setCellState(Grid, defaultState, c, state))
    /\ cellsToEvaluate' =
          frontierAfterSet(cellsToEvaluate, activeCells, defaultState, neighborhood,
                           c, state)
    /\ lastOp' = "setCellState"
    /\ lastArg' = <<c, state>>
    /\ UNCHANGED <<defaultState, ruleTrie, pc, snapshotResult, simulationPaused>>
    /\ UNCHANGED engineVars
    /\ UNCHANGED loopVars
    /\ LoopUnused

\* Application::loadSnapshot; a failed load is logged as fatal (line 598)
InputLoadSnapshot(file, fileOpens) ==
    LET wasPaused == simulationPaused
        paused == pauseSimulation(App)
        result == loadState(fileOpens, file, heapOrder, Grid, cellsToEvaluate,
                            neighborhood)
        loaded == result.returned = "true"
    IN /\ pc = "input"
       /\ SetGrid(result.cellSpace)
       /\ cellsToEvaluate' = result.cellsToEvaluate
       /\ snapshotResult' = result.returned
       /\ SetApp(IF loaded THEN resumeIfWasRunning(paused, wasPaused, isRunning)
                 ELSE paused)
       /\ pc' = IF loaded THEN "input" ELSE "exited"
       /\ lastOp' = "loadSnapshot"
       /\ lastArg' = [wasPaused |-> wasPaused]
       /\ UNCHANGED <<defaultState, ruleTrie, isRunning, timePerUpdate,
                      stepsExecuted, lagAtUpdate>>
       /\ UNCHANGED engineVars
       /\ LoopUnused

\* Application::clearSimulation
InputClearSimulation ==
    LET wasPaused == simulationPaused
        paused == pauseSimulation(App)
    IN /\ pc = "input"
       /\ SetGrid(clear(Grid))
       /\ cellsToEvaluate' = {}
       /\ SetApp(resumeIfWasRunning(paused, wasPaused, isRunning))
       /\ lastOp' = "clearSimulation"
       /\ lastArg' = [wasPaused |-> wasPaused]
       /\ UNCHANGED <<defaultState, ruleTrie, pc, snapshotResult, isRunning,
                      timePerUpdate, stepsExecuted, lagAtUpdate>>
       /\ UNCHANGED engineVars
       /\ LoopUnused

\* Application::loadConfiguration; a file that does not load and an engine
\* that does not initialize are both logged as fatal (lines 194 and 210)
InputLoadConfiguration(j, fs) ==
    LET wasPaused == simulationPaused
        paused == pauseSimulation(App)
        newConfig == loadFromFile(j)
        done == initialize(Engine, newConfig, fs)
    IN /\ pc = "input"
       /\ lastOp' = "loadConfiguration"
       /\ lastArg' = [wasPaused |-> wasPaused]
       /\ IF ~newConfig.loaded
          THEN /\ SetApp(paused)
               /\ pc' = "exited"
               /\ UNCHANGED gridVars
               /\ UNCHANGED <<defaultState, cellsToEvaluate, ruleTrie>>
               /\ UNCHANGED engineVars
          ELSE /\ defaultState' = newConfig.defaultState
               /\ SetGrid(NewCellSpace)
               /\ cellsToEvaluate' = {}
               /\ SetEngine(done[1])
               /\ IF done[2] = "true"
                  THEN /\ SetApp(resumeIfWasRunning(
                                    [paused EXCEPT !.simulationLag = 0],
                                    wasPaused, isRunning))
                       /\ pc' = "input"
                  ELSE /\ SetApp(paused)
                       /\ pc' = "exited"
       /\ UNCHANGED <<snapshotResult, isRunning, timePerUpdate, stepsExecuted,
                      lagAtUpdate>>
       /\ LoopUnused

\* processInput returns (line 264)
ProcessInputReturn ==
    /\ pc = "input"
    /\ pc' = "update"
    /\ lagAtUpdate' = simulationLag
    /\ lastOp' = "processInput"
    /\ lastArg' = "returned"
    /\ UNCHANGED gridVars
    /\ UNCHANGED <<defaultState, cellsToEvaluate, ruleTrie, simulationPaused,
                   snapshotResult, isRunning, timePerUpdate, simulationLag,
                   stepsExecuted>>
    /\ UNCHANGED engineVars
    /\ LoopUnused

\* Application::updateSimulation called from run
RunUpdateSimulation ==
    IF simulationPaused \/ ~initialized
    THEN /\ UNCHANGED gridVars
         /\ UNCHANGED <<cellsToEvaluate, stepsExecuted>>
    ELSE LET computed == calculateNextGeneration(Engine, activeCells, defaultState)
         IN /\ stepsExecuted' = stepsExecuted + 1
            /\ IF computed = <<>>
               THEN /\ UNCHANGED gridVars
                    /\ UNCHANGED cellsToEvaluate
               ELSE \E upds \in PermSeqs(computed) :
                       /\ SetGrid(updateCells(Grid, defaultState, upds))
                       /\ cellsToEvaluate' =
                             frontierAfterUpdates(activeCells, defaultState,
                                                  neighborhood, upds)

\* one pass of the update loop (lines 266-270), or the single update of a
\* zero timePerUpdate_ (lines 271-274)
RunUpdate ==
    /\ pc = "update"
    /\ ~simulationPaused
    /\ timePerUpdate > 0 => simulationLag >= timePerUpdate
    /\ RunUpdateSimulation
    /\ simulationLag' = IF timePerUpdate > 0 THEN simulationLag - timePerUpdate ELSE 0
    /\ pc' = IF timePerUpdate > 0 THEN "update" ELSE "render"
    /\ lastOp' = "updateSimulation"
    /\ lastArg' = "run"
    /\ UNCHANGED <<defaultState, ruleTrie, simulationPaused, snapshotResult,
                   isRunning, timePerUpdate, lagAtUpdate>>
    /\ UNCHANGED engineVars
    /\ LoopUnused

\* the update loop is over (or was not entered): renderScene is next
RunUpdateDone ==
    /\ pc = "update"
    /\ simulationPaused \/ (timePerUpdate > 0 /\ simulationLag < timePerUpdate)
    /\ pc' = "render"
    /\ lastOp' = "run"
    /\ lastArg' = "updated"
    /\ UNCHANGED gridVars
    /\ UNCHANGED <<defaultState, cellsToEvaluate, ruleTrie, simulationPaused,
                   snapshotResult>>
    /\ UNCHANGED engineVars
    /\ UNCHANGED loopVars
    /\ LoopUnused

\* renderScene (line 275) changes nothing of the simulation
RenderScene ==
    /\ pc = "render"
    /\ pc' = "run"
    /\ lastOp' = "renderScene"
    /\ lastArg' = "rendered"
    /\ UNCHANGED gridVars
    /\ UNCHANGED <<defaultState, cellsToEvaluate, ruleTrie, simulationPaused,
                   snapshotResult>>
    /\ UNCHANGED engineVars
    /\ UNCHANGED loopVars
    /\ LoopUnused

\* the application after initializeSubsystems succeeded with LoopFile
InitLoop ==
    /\ defaultState = loadFromFile(LoopFile).defaultState
    /\ neighborhood = NRight
    /\ activeCells = NewCellSpace.activeCells
    /\ minGridBounds = NewCellSpace.minGridBounds
    /\ maxGridBounds = NewCellSpace.maxGridBounds
    /\ boundsInitialized = NewCellSpace.boundsInitialized
    /\ cellsToEvaluate = {}
    /\ lastOp = "initializeSubsystems"
    /\ lastArg = "ok"
    /\ LET eng == initialize(NewRuleEngine, loadFromFile(LoopFile),
                             [library |-> TRUE, symbol |-> TRUE])[1]
       IN /\ ruleTrie = eng.ruleTrie
          /\ initialized = eng.initialized
          /\ currentRuleMode = eng.currentRuleMode
          /\ neighborhoodDefinition = eng.neighborhoodDefinition
          /\ dllHandle = eng.dllHandle
          /\ dllRuleFunction = eng.dllRuleFunction
          /\ openHandles = eng.openHandles
    /\ inserted = EmptyMap
    /\ pc = "run"
    /\ changes = <<>>
    /\ simulationPaused = TRUE
    /\ dataToCompress = <<>>
    /\ compressedData = <<>>
    /\ decompressedOutput = <<>>
    /\ heapOrder = "oldest"
    /\ serializedData = <<>>
    /\ savedCellSpace = NewCellSpace
    /\ snapshotResult = "none"
    /\ isRunning = TRUE
    /\ timePerUpdate = setSimulationSpeed(100)
    /\ simulationLag = 0
    /\ stepsExecuted = 0
    /\ lagAtUpdate = 0
    /\ TimerInit

NextLoop ==
    \/ RunReturn
    \/ \E elapsedTime \in ElapsedTimes : RunElapsed(elapsedTime)
    \/ InputTogglePause
    \/ InputPauseSimulation
    \/ InputResumeSimulation
    \/ \E updatesPerSecond \in Speeds : InputSetSimulationSpeed(updatesPerSecond)
    \/ InputQuit
    \/ \E c \in LoopPoints : InputPaint(c, 1)
    \/ \E file \in LoopSnapshots, fileOpens \in BOOLEAN : InputLoadSnapshot(file, fileOpens)
    \/ InputClearSimulation
    \/ \E j \in LoopFiles : InputLoadConfiguration(j, [library |-> TRUE, symbol |-> TRUE])
    \/ ProcessInputReturn
    \/ RunUpdate
    \/ RunUpdateDone
    \/ RenderScene

SpecLoop == InitLoop /\ [][NextLoop]_vars

\* C34: no simulation step is executed while the simulation is paused or
\* the engine is not initialized; when running with timePerUpdate > 0 the
\* loop has executed one step per whole timePerUpdate of accumulated lag and
\* left simulationLag below timePerUpdate when it gets to rendering; every
\* change of the pause flag resets the lag to 0.
FixedTimestepLoop ==
    [][/\ stepsExecuted' > stepsExecuted => (~simulationPaused /\ initialized)
       /\ (pc' = "render" /\ simulationPaused') => stepsExecuted' = 0
       /\ (pc' = "render" /\ ~simulationPaused' /\ timePerUpdate' > 0) =>
             /\ simulationLag' < timePerUpdate'
             /\ stepsExecuted' = lagAtUpdate' \div timePerUpdate'
       /\ simulationPaused' # simulationPaused => simulationLag' = 0
      ]_vars

\* three steps in one iteration with a remainder left, after a resume that
\* found lag accumulated during the pause
FixedTimestepLoopWitness ==
    /\ pc = "render"
    /\ ~simulationPaused
    /\ stepsExecuted = 3
    /\ simulationLag > 0
    /\ simulationLag < timePerUpdate
    /\ activeCells # EmptyMap

\* C35: while the application is running, loadSnapshot, clearSimulation and
\* loadConfiguration return with simulationPaused equal to its value before
\* the call, whether the operation succeeded or failed.
PauseStatePreserved ==
    (lastOp \in {"loadSnapshot", "clearSimulation", "loadConfiguration"} /\ isRunning) =>
        /\ pc # "exited"
        /\ simulationPaused = lastArg.wasPaused

(***************************************************************************)
(* Timer (src/src/utils/timer.cpp).  A Timer instance is the record of its *)
(* fields and of the number of durations it has added to the accumulated   *)
(* total of its module; the clock is an integer that only moves forward.   *)
(***************************************************************************)
MaxTimers == 2
MaxClock == 3
TimerModules == {"calculateForUpdate", "applyUpdate"}

\* Timer::Timer
NewTimer(module) ==
    [module |-> module, isRunning |-> FALSE, hasBeenStopped |-> FALSE,
     startTimePoint |-> 0, added |-> 0]

\* the variant that lets a stopped instance start again
startAllowsRestart(timer, now) ==
    IF timer.isRunning THEN <<timer, "runtime_error">>
    ELSE <<[timer EXCEPT !.startTimePoint = now, !.isRunning = TRUE], "ok">>

\* Timer::start; the pair <<timer, "ok" or the exception thrown>>
start(timer, now) ==
    IF timer.isRunning THEN <<timer, "runtime_error">>
    ELSE IF timer.hasBeenStopped THEN <<timer, "runtime_error">>
    ELSE <<[timer EXCEPT !.startTimePoint = now, !.isRunning = TRUE], "ok">>

\* Timer::stop; <<timer, s_accumulatedTimes_, "ok" or the exception thrown>>
stop(timer, accumulatedTimes, now) ==
    IF ~timer.isRunning
    THEN IF timer.hasBeenStopped THEN <<timer, accumulatedTimes, "ok">>
         ELSE <<timer, accumulatedTimes, "runtime_error">>
    ELSE LET duration == now - timer.startTimePoint
             sofar == IF timer.module \in DOMAIN accumulatedTimes
                      THEN accumulatedTimes[timer.module] ELSE 0
         IN <<[timer EXCEPT !.isRunning = FALSE, !.hasBeenStopped = TRUE,
                            !.added = @ + 1],
              MapPut(accumulatedTimes, timer.module, sofar + duration),
              "ok">>

TimerUnused ==
    /\ UNCHANGED gridVars
    /\ UNCHANGED <<defaultState, neighborhood, cellsToEvaluate>>
    /\ UNCHANGED trieVars
    /\ UNCHANGED engineVars
    /\ UNCHANGED appVars
    /\ UNCHANGED <<dataToCompress, compressedData, decompressedOutput, heapOrder>>
    /\ UNCHANGED snapVars
    /\ UNCHANGED loopVars

\* Timer::getTimer
GetTimer(module) ==
    /\ Len(timers) < MaxTimers
    /\ timers' = Append(timers, NewTimer(module))
    /\ lastOp' = "getTimer"
    /\ lastArg' = module
    /\ UNCHANGED <<s_accumulatedTimes, clockNow>>
    /\ TimerUnused

Start(i) ==
    LET done == start(timers[i], clockNow) IN
    /\ i \in DOMAIN timers
    /\ timers' = [timers EXCEPT ![i] = done[1]]
    /\ lastOp' = "start"
    /\ lastArg' = [timer |-> i, before |-> timers[i],
                   accumulated |-> s_accumulatedTimes,
                   raised |-> done[2] = "runtime_error"]
    /\ UNCHANGED <<s_accumulatedTimes, clockNow>>
    /\ TimerUnused

Stop(i) ==
    LET done == stop(timers[i], s_accumulatedTimes, clockNow) IN
    /\ i \in DOMAIN timers
    /\ timers' = [timers EXCEPT ![i] = done[1]]
    /\ s_accumulatedTimes' = done[2]
    /\ lastOp' = "stop"
    /\ lastArg' = [timer |-> i, before |-> timers[i],
                   accumulated |-> s_accumulatedTimes,
                   raised |-> done[3] = "runtime_error"]
    /\ UNCHANGED clockNow
    /\ TimerUnused

\* Timer::resetAll
ResetAll ==
    /\ s_accumulatedTimes # EmptyMap
    /\ s_accumulatedTimes' = EmptyMap
    /\ lastOp' = "resetAll"
    /\ lastArg' = "resetAll"
    /\ UNCHANGED <<timers, clockNow>>
    /\ TimerUnused

\* time passes
ClockAdvance ==
    /\ clockNow < MaxClock
    /\ clockNow' = clockNow + 1
    /\ lastOp' = "clock"
    /\ lastArg' = clockNow + 1
    /\ UNCHANGED <<timers, s_accumulatedTimes>>
    /\ TimerUnused

InitTimer ==
    /\ defaultState = 0
    /\ activeCells = NewCellSpace.activeCells
    /\ minGridBounds = NewCellSpace.minGridBounds
    /\ maxGridBounds = NewCellSpace.maxGridBounds
    /\ boundsInitialized = NewCellSpace.boundsInitialized
    /\ neighborhood = <<>>
    /\ cellsToEvaluate = {}
    /\ lastOp = "new"
    /\ lastArg = "new"
    /\ InitRest

NextTimer ==
    \/ \E module \in TimerModules : GetTimer(module)
    \/ \E i \in 1..MaxTimers : Start(i)
    \/ \E i \in 1..MaxTimers : Stop(i)
    \/ ResetAll
    \/ ClockAdvance

SpecTimer == InitTimer /\ [][NextTimer]_vars

\* C36: start on an instance that is running or has already been stopped
\* raises an error; stop on an instance that was never started raises an
\* error; a second stop after a successful stop changes nothing; each Timer
\* instance adds at most one duration to the total of its module.
TimerOneShot ==
    /\ lastOp = "start" =>
          /\ lastArg.raised <=>
                (lastArg.before.isRunning \/ lastArg.before.hasBeenStopped)
          /\ lastArg.raised => timers[lastArg.timer] = lastArg.before
    /\ lastOp = "stop" =>
          /\ lastArg.raised <=>
                (~lastArg.before.isRunning /\ ~lastArg.before.hasBeenStopped)
          /\ ~lastArg.before.isRunning =>
                /\ timers[lastArg.timer] = lastArg.before
                /\ s_accumulatedTimes = lastArg.accumulated
    /\ \A i \in DOMAIN timers : timers[i].added <= 1

\* a second stop on an instance that has added its one duration
TimerOneShotWitness ==
    /\ lastOp = "stop"
    /\ ~lastArg.raised
    /\ lastArg.before.hasBeenStopped
    /\ timers[lastArg.timer].added = 1
    /\ timers[lastArg.timer].module \in DOMAIN s_accumulatedTimes
    /\ s_accumulatedTimes[timers[lastArg.timer].module] > 0

====
